---- MODULE Spec2Model ----
(***************************************************************************)
(* son-of-anthon: the tool-call loop (cmd/son-of-anthon/main.go), the      *)
(* subagent manager (pkg/skills/subagent/manager.go), the gateway's        *)
(* heartbeat handler and shutdown path (main.go, gatewayCmd) and the news  *)
(* deduplication engine (pkg/skills/monitor), and the RFC cache codec       *)
(* (pkg/skills/rfc.go).                                                    *)
(*                                                                         *)
(* Each component has its own next-state relation and specification over   *)
(* the one set of variables; the variables of the other components stay    *)
(* at their initial values.                                                *)
(***************************************************************************)
EXTENDS Integers, Sequences, FiniteSets, TLC

VARIABLES
    \* ---- processMessage (main.go:265-354) ----
    pc,          \* position of processMessage: idle, check, tools, done
    messages,    \* the transcript ([]providers.Message)
    response,    \* the last reply of provider.Chat
    iterations,  \* the loop counter
    tcIdx,       \* index of the next tool call of response.ToolCalls to dispatch
    retval,      \* the string processMessage returned
    llmCalls,    \* number of provider.Chat calls made so far (history)
    execCount,   \* number of toolsRegistry.Execute calls made so far (history)
    replies,     \* every non-nil reply provider.Chat returned, in order (history)
    lastExec,    \* the last toolsRegistry.Execute call: tool-call id and result (history)
    errAt,       \* counters at the moment provider.Chat returned an error (history)
    \* ---- SubagentManager (pkg/skills/subagent/manager.go) ----
    tasks,       \* sm.tasks: the task rows, by number n of the id "subagent-n"
    nextID,      \* sm.nextID
    taskPc,      \* position of each task's runTask goroutine: start, loop, done
    taskCtx,     \* the scope each runTask was given
    announced,   \* the messages runTask published on sm.bus
    cancelledScopes, \* the scopes that have been cancelled
    \* ---- gatewayCmd (main.go:390-607): files, heartbeat, loops, shutdown ----
    chiefDash,   \* chief/memory/deadlines-today.md, the file the heartbeat reads
    archDash,    \* architect/memory/deadlines-today.md, written by sync_deadlines
    atcRootTasks,\* atc/tasks.xml, the file the heartbeat reads
    atcMirror,   \* atc/memory/tasks.xml, the task skill's mirror
    now,         \* the clock, in hours
    hb,          \* the heartbeat handler: position, inputs and result of the last tick
    hbTicks,     \* number of heartbeat ticks so far (history)
    outbound,    \* the messages published on the outbound side of the bus
    loopState,   \* each scheduler-started tool-call loop: none, inflight, returned
    loopCtx,     \* the scope each loop was given
    loopSteps,   \* number of suspension points each loop has passed (history)
    rootCancelled, \* cancel() of gatewayCmd's root scope has been called
    proc,        \* the process: running, stopping (after SIGINT), exited
    \* ---- MonitorSkill: the dedup engine and its store ----
    clock,       \* time.Now(), in units of 6 hours
    cache,       \* seenURLs, seenTitles, seenBodies: key -> seen time
    shownURLs,   \* canonical URL -> number of the fetch that last showed it
    fetchCount,  \* s.fetchCount
    dbOpen,      \* s.db # nil
    store,       \* table dedup_cache of monitor.db: hash -> row
    fetchPc,     \* executeFetch: idle, or fetched (the feeds have answered)
    allItems,    \* the items the feeds gave to the fetch in progress
    fetchLimit,  \* its limit
    loaded,      \* the fetch in progress ran loadDedupCache
    results,     \* what the last fetch returned
    fetches,     \* number of fetches so far (history)
    admitted,    \* the items the engine let through, with the time (history)
    marked,      \* per map, key -> value and time of the last markSeen (history)
    \* ---- the RFC cache codec (pkg/skills/rfc.go) over one cache path ----
    rfcNow,      \* time.Now(), in units of 6 hours
    inodes,      \* the files of the directory: inode number -> its lines
    rfcDir,      \* the directory: which inode the names path and path.tmp hold (0: none)
    wr,          \* each WriteRFCFile caller: position, arguments, locals
    rd,          \* the ParseRFCFile caller: position, argument, locals, result
    rfcCalls,    \* number of WriteRFCFile calls so far (history)
    \* ---- executeFetch's fan-out (monitor/skill.go:1098-1129) ----
    fanPc,       \* executeFetch: idle, fanout (the group is running), returned
    feedSt,      \* each feed's goroutine: pending, running, done, and the error it returned
    gErr,        \* the errgroup's first error: the feed and the error
    gCancelled,  \* gCtx is cancelled
    fanItems,    \* allItems: the feeds whose items were appended
    fanResult,   \* what the last executeFetch went on with: the items, the error logged
    fanProc,     \* the process: running, crashed
    \* ---- CalDAV calls (atc/ics_sync.go, architect/skill.go) ----
    davItem,     \* the item the server holds at the href (NoItem: none)
    davLog,      \* the requests of the merge_task call in progress or last made
    merge,       \* mergeTaskOnCalDAV: position, arguments, what it fetched
    davLast,     \* the last call that ended: the status it got and what it reported
    \* ---- skill workspaces (atc/skill.go, coach/skill.go) ----
    wsFiles,     \* skill -> file -> absent, initial or changed
    wsCalls,     \* skill -> SetWorkspace calls so far
    wsStat,      \* skill -> what os.Stat found at the last SetWorkspace
    todos,       \* uid -> the VTODO of memory/tasks.xml
    atcErr,      \* the error of the last task command
    \* ---- habit skill (coach: check_habits) ----
    streaks,     \* habit -> its row of the streaks table
    coachDay,    \* today, as a day number
    coachLast,   \* the last check_habits: its parity and its habitCompleted map
    \* ---- chief skill (urgent_deadlines) ----
    deadlinesToday, \* the lines of memory/deadlines-today.md
    chiefNow,    \* the clock, in hours
    chiefOut,    \* the result of urgent_deadlines, "" once the file or the clock moved
    \* ---- canonical URL (rfc.go, monitor/skill.go) ----
    rawURL,      \* the URL handed in
    urlOut,      \* its normalized URL, its canonical URL and its id
    \* ---- the manager's lock (subagent/manager.go: sm.mu) ----
    smMu,        \* the lock: its writer (0: none) and its readers
    rows,        \* task -> its row of the table
    runPc,       \* task -> the line runTask is at
    runOut,      \* task -> what its loop returned
    getPc,       \* the line GetTask is at
    getSeen,     \* the row GetTask looked up last
    rowWrite,    \* the last write of a row: its line, whether its goroutine held the lock, the readers
    \* ---- concurrent fetches on one engine (monitor/skill.go:1056-1300) ----
    engMu,       \* s.mu: the writer (0: none) and the readers
    engDb,       \* s.db is open
    engSeen,     \* the keys of the dedup maps
    engStore,    \* the keys of the dedup_cache rows
    engPc,       \* position of each executeFetch
    engItem,     \* the item each fetch got
    engNew,      \* checkDuplicate returned nil
    engRuns,     \* fetches started by each goroutine
    engAdmitted, \* the admissions, in order
    engAccess,   \* accesses of the last step and the lock held
    engFatal     \* the runtime stopped the program

loopVars == <<pc, messages, response, iterations, tcIdx, retval, llmCalls,
              execCount, replies, lastExec, errAt>>

subVars == <<tasks, nextID, taskPc, taskCtx, announced, cancelledScopes>>

fileVars == <<chiefDash, archDash, atcRootTasks, atcMirror, now>>
hbVars == <<hb, hbTicks, outbound>>
schedVars == <<loopState, loopCtx, loopSteps, rootCancelled, proc>>
gwVars == <<fileVars, hbVars, schedVars>>

dedupVars == <<clock, cache, shownURLs, fetchCount, dbOpen, store, fetchPc, allItems,
               fetchLimit, loaded, results, fetches, admitted, marked>>

rfcVars == <<rfcNow, inodes, rfcDir, wr, rd, rfcCalls>>

fanVars == <<fanPc, feedSt, gErr, gCancelled, fanItems, fanResult, fanProc>>

davVars == <<davItem, davLog, merge, davLast>>

wsVars == <<wsFiles, wsCalls, wsStat, todos, atcErr>>

coachVars == <<streaks, coachDay, coachLast>>

chiefVars == <<deadlinesToday, chiefNow, chiefOut>>

urlVars == <<rawURL, urlOut>>

muVars == <<smMu, rows, runPc, runOut, getPc, getSeen, rowWrite>>

engVars == <<engMu, engDb, engSeen, engStore, engPc, engItem, engNew, engRuns, engAdmitted, engAccess, engFatal>>

vars == <<loopVars, subVars, gwVars, dedupVars, rfcVars, fanVars, davVars,
          wsVars, coachVars, chiefVars, urlVars, muVars, engVars>>

\* What an action of one component leaves alone: the other components.
notLoop == <<subVars, gwVars, dedupVars, rfcVars, fanVars, davVars, wsVars,
             coachVars, chiefVars, urlVars, muVars, engVars>>
notSub == <<loopVars, gwVars, dedupVars, rfcVars, fanVars, davVars, wsVars,
            coachVars, chiefVars, urlVars, muVars, engVars>>
notGw == <<loopVars, subVars, dedupVars, rfcVars, fanVars, davVars, wsVars,
           coachVars, chiefVars, urlVars, muVars, engVars>>
notDedup == <<loopVars, subVars, gwVars, rfcVars, fanVars, davVars, wsVars,
              coachVars, chiefVars, urlVars, muVars, engVars>>
notRfc == <<loopVars, subVars, gwVars, dedupVars, fanVars, davVars, wsVars,
            coachVars, chiefVars, urlVars, muVars, engVars>>
notFan == <<loopVars, subVars, gwVars, dedupVars, rfcVars, davVars, wsVars,
            coachVars, chiefVars, urlVars, muVars, engVars>>
notDav == <<loopVars, subVars, gwVars, dedupVars, rfcVars, fanVars, wsVars,
            coachVars, chiefVars, urlVars, muVars, engVars>>
notWs == <<loopVars, subVars, gwVars, dedupVars, rfcVars, fanVars, davVars,
           coachVars, chiefVars, urlVars, muVars, engVars>>
notCoach == <<loopVars, subVars, gwVars, dedupVars, rfcVars, fanVars,
              davVars, wsVars, chiefVars, urlVars, muVars, engVars>>
notChief == <<loopVars, subVars, gwVars, dedupVars, rfcVars, fanVars,
              davVars, wsVars, coachVars, urlVars, muVars, engVars>>
notUrl == <<loopVars, subVars, gwVars, dedupVars, rfcVars, fanVars, davVars,
            wsVars, coachVars, chiefVars, muVars, engVars>>
notMu == <<loopVars, subVars, gwVars, dedupVars, rfcVars, fanVars, davVars,
           wsVars, coachVars, chiefVars, urlVars, engVars>>
notEng == <<loopVars, subVars, gwVars, dedupVars, rfcVars, fanVars, davVars,
            wsVars, coachVars, chiefVars, urlVars, muVars>>

----------------------------------------------------------------------------
(***************************************************************************)
(* The tool-call loop: processMessage.                                     *)
(***************************************************************************)

\* The iteration cap of the loop. main.go:298 sets 8 (the older main of
\* part_001:135 sets 3); the loop is checked for a smaller cap.
maxIterations == 2

NoID == <<>>
NoFunction == [present |-> FALSE, Name |-> ""]

\* providers.ToolCall as processMessage reads it: ID, Name, Function.Name.
\* "top" names the tool in Name, "fn" under Function.Name, "anon" nowhere.
ToolCall(kind, n, i) ==
    [ID |-> <<n, i>>,
     Name |-> IF kind = "top" THEN "atc" ELSE "",
     Function |-> IF kind = "fn" THEN [present |-> TRUE, Name |-> "coach"] ELSE NoFunction]

\* The tool-call lists one reply of the LM carries, by the kinds of its calls.
ToolCallShapes ==
    { <<>>, <<"top">>, <<"fn">>, <<"anon">>, <<"top", "fn">>, <<"anon", "top">> }

ToolCallList(shape, n) == [i \in 1..Len(shape) |-> ToolCall(shape[i], n, i)]

ReplyContent(n) == "reply" \o ToString(n)

\* What the n-th provider.Chat call can return: an error, a nil response, or
\* a reply with one of the tool-call lists.
ChatOutcomes(n) ==
    { [kind |-> "err", Content |-> "", ToolCalls |-> <<>>],
      [kind |-> "nil", Content |-> "", ToolCalls |-> <<>>] }
    \cup
    { [kind |-> "ok", Content |-> ReplyContent(n), ToolCalls |-> tcs] :
        tcs \in { ToolCallList(shape, n) : shape \in ToolCallShapes } }

\* *tools.ToolResult as the registry returns it (nil included).
NilResult == [isNil |-> TRUE, ForLLM |-> "", ForUser |-> "", Silent |-> FALSE, IsError |-> FALSE]
ToolResults ==
    { NilResult,
      [isNil |-> FALSE, ForLLM |-> "L", ForUser |-> "U", Silent |-> FALSE, IsError |-> FALSE],
      [isNil |-> FALSE, ForLLM |-> "",  ForUser |-> "U", Silent |-> FALSE, IsError |-> FALSE],
      [isNil |-> FALSE, ForLLM |-> "L", ForUser |-> "",  Silent |-> TRUE,  IsError |-> FALSE],
      [isNil |-> FALSE, ForLLM |-> "E", ForUser |-> "E", Silent |-> FALSE, IsError |-> TRUE] }

Message(role, content, id) ==
    [Role |-> role, Content |-> content, ToolCallID |-> id, ToolCalls |-> <<>>]

NoResponse == [Content |-> "", ToolCalls |-> <<>>]
NoReturn == [kind |-> "none", text |-> ""]
NoExec == [id |-> NoID, result |-> NilResult, appended |-> FALSE]
NoErr == [seen |-> FALSE, llmCalls |-> 0, execCount |-> 0]

InitLoop ==
    /\ pc = "idle"
    /\ messages = <<>>
    /\ response = NoResponse
    /\ iterations = 0
    /\ tcIdx = 0
    /\ retval = NoReturn
    /\ llmCalls = 0
    /\ execCount = 0
    /\ replies = <<>>
    /\ lastExec = NoExec
    /\ errAt = NoErr

\* AfterChat with the error of provider.Chat ignored: the loop goes on with the
\* reply it had.
AfterChatMut(out, first) ==
    IF out.kind = "nil"
    THEN [pc |-> "done",
          retval |-> [kind |-> "error",
                      text |-> IF first THEN "Error: empty response from provider"
                                        ELSE "Error: empty response"],
          response |-> response]
    ELSE [pc |-> "check", retval |-> NoReturn,
          response |-> IF out.kind = "err" THEN response
                       ELSE [Content |-> out.Content, ToolCalls |-> out.ToolCalls]]

\* main.go:290-296 and 344-349: what processMessage does with the outcome of
\* provider.Chat. first tells the first call (whose nil-response text differs).
AfterChat(out, first) ==
    IF out.kind = "err"
    THEN [pc |-> "done", retval |-> [kind |-> "error", text |-> "Error: err"],
          response |-> response]
    ELSE IF out.kind = "nil"
    THEN [pc |-> "done",
          retval |-> [kind |-> "error",
                      text |-> IF first THEN "Error: empty response from provider"
                                        ELSE "Error: empty response"],
          response |-> response]
    ELSE [pc |-> "check", retval |-> NoReturn,
          response |-> [Content |-> out.Content, ToolCalls |-> out.ToolCalls]]

\* The bookkeeping of one provider.Chat call.
Chat(out, first) ==
    /\ llmCalls' = llmCalls + 1
    /\ replies' = IF out.kind = "ok"
                  THEN Append(replies, [Content |-> out.Content, ToolCalls |-> out.ToolCalls])
                  ELSE replies
    /\ errAt' = IF out.kind = "err" /\ ~errAt.seen
                THEN [seen |-> TRUE, llmCalls |-> llmCalls + 1, execCount |-> execCount]
                ELSE errAt
    /\ pc' = AfterChat(out, first).pc
    /\ retval' = AfterChat(out, first).retval
    /\ response' = AfterChat(out, first).response

\* main.go:282-296: build the transcript and make the first call.
PMStart ==
    /\ pc = "idle"
    /\ messages' = << Message("system", "systemPrompt", NoID),
                      Message("user", "userMessage", NoID) >>
    /\ \E out \in ChatOutcomes(llmCalls + 1) : Chat(out, TRUE)
    /\ UNCHANGED <<iterations, tcIdx, execCount, lastExec>>
    /\ UNCHANGED notLoop

\* LoopGuard off by one.
LoopGuardMut(resp, iters) == Len(resp.ToolCalls) > 0 /\ iters <= maxIterations

\* main.go:301: the loop condition.
LoopGuard(resp, iters) == Len(resp.ToolCalls) > 0 /\ iters < maxIterations

\* main.go:302-306: enter an iteration and append the assistant message.
PMIterate ==
    /\ pc = "check"
    /\ LoopGuard(response, iterations)
    /\ iterations' = iterations + 1
    /\ messages' = Append(messages, Message("assistant", response.Content, NoID))
    /\ tcIdx' = 1
    /\ pc' = "tools"
    /\ UNCHANGED <<response, retval, llmCalls, execCount, replies, lastExec, errAt>>
    /\ UNCHANGED notLoop

\* main.go:309-312: the tool name, top-level or under Function.
toolName(tc) ==
    IF tc.Name = "" /\ tc.Function.present THEN tc.Function.Name ELSE tc.Name

\* AppendResult with the tool message put in front of the transcript.
AppendResultMut(msgs, tcID, result) ==
    IF result.isNil THEN msgs
    ELSE <<[Role |-> "tool", Content |-> result.ForLLM,
            ToolCallID |-> tcID, ToolCalls |-> <<>>]>> \o msgs

\* main.go:327-340: the transcript after a result of the registry.
AppendResult(msgs, tcID, result) ==
    IF result.isNil THEN msgs
    ELSE LET contentForLLM == IF result.ForLLM = "" THEN result.ForUser ELSE result.ForLLM
         IN  Append(msgs, [Role |-> "tool", Content |-> contentForLLM,
                           ToolCallID |-> tcID, ToolCalls |-> <<>>])

\* main.go:308-341: one pass of the body of the range over response.ToolCalls.
PMToolCall ==
    /\ pc = "tools"
    /\ tcIdx <= Len(response.ToolCalls)
    /\ LET tc == response.ToolCalls[tcIdx] IN
         IF toolName(tc) = ""
         THEN UNCHANGED <<messages, execCount, lastExec>>
         ELSE \E result \in ToolResults :
                /\ execCount' = execCount + 1
                /\ messages' = AppendResult(messages, tc.ID, result)
                /\ lastExec' = [id |-> tc.ID, result |-> result,
                                appended |-> messages' # messages]
    /\ tcIdx' = tcIdx + 1
    /\ UNCHANGED <<pc, response, iterations, retval, llmCalls, replies, errAt>>
    /\ UNCHANGED notLoop

\* main.go:343-349: the call that ends an iteration.
PMChat ==
    /\ pc = "tools"
    /\ tcIdx > Len(response.ToolCalls)
    /\ \E out \in ChatOutcomes(llmCalls + 1) : Chat(out, FALSE)
    /\ UNCHANGED <<messages, iterations, tcIdx, execCount, lastExec>>
    /\ UNCHANGED notLoop

\* main.go:353: the loop is left and the last content is returned.
PMReturn ==
    /\ pc = "check"
    /\ ~LoopGuard(response, iterations)
    /\ retval' = [kind |-> "content", text |-> response.Content]
    /\ pc' = "done"
    /\ UNCHANGED <<messages, response, iterations, tcIdx, llmCalls, execCount,
                   replies, lastExec, errAt>>
    /\ UNCHANGED notLoop

NextLoop ==
    \/ PMStart
    \/ PMIterate
    \/ PMToolCall
    \/ PMChat
    \/ PMReturn


----------------------------------------------------------------------------
(***************************************************************************)
(* Claims about the tool-call loop.                                        *)
(***************************************************************************)

\* Every reply so far carried exactly one tool call, and a named one.
AllToolTurns ==
    \A i \in 1..Len(replies) :
        /\ Len(replies[i].ToolCalls) = 1
        /\ toolName(replies[i].ToolCalls[1]) # ""

\* C1: with cap N = maxIterations, when every reply of the LM carries a tool
\* call, processMessage ends after exactly N tool invocations and N + 1 LM
\* calls (none after the cap is reached), and returns the content of the last
\* reply; no run makes more than N + 1 LM calls.
C1_CapEndsLoop ==
    /\ llmCalls <= maxIterations + 1
    /\ (pc = "done" /\ retval.kind = "content" /\ AllToolTurns)
         => /\ iterations = maxIterations
            /\ execCount = maxIterations
            /\ llmCalls = maxIterations + 1
            /\ Len(replies) = maxIterations + 1
            /\ retval.text = replies[Len(replies)].Content
            /\ retval.text = ReplyContent(maxIterations + 1)

C1_Witness ==
    /\ pc = "done"
    /\ retval.kind = "content"
    /\ AllToolTurns
    /\ execCount = maxIterations

\* C9: once a provider.Chat call, the first or a later one, has returned an
\* error, processMessage has returned the error text, and no tool call and
\* no LM call has been made since the failed call.
C9_ErrorAborts ==
    errAt.seen =>
        /\ pc = "done"
        /\ retval = [kind |-> "error", text |-> "Error: err"]
        /\ llmCalls = errAt.llmCalls
        /\ execCount = errAt.execCount

C9_Witness ==
    /\ errAt.seen
    /\ errAt.llmCalls > 1
    /\ errAt.execCount > 0
    /\ pc = "done"

\* C10: for each dispatched tool call the loop appends nothing when the
\* registry returns nil or a silent result, and otherwise appends exactly one
\* tool message with forLLM (forUser when forLLM is empty) and the id of the
\* tool call.
C10_ToolMessageRule ==
    [][ execCount' = execCount + 1 =>
          LET r == lastExec'.result
              id == lastExec'.id
          IN  IF r.isNil \/ r.Silent
              THEN messages' = messages
              ELSE messages' = Append(messages,
                       [Role |-> "tool",
                        Content |-> IF r.ForLLM = "" THEN r.ForUser ELSE r.ForLLM,
                        ToolCallID |-> id, ToolCalls |-> <<>>]) ]_vars


\* The number of assistant messages among the first p messages.
AssistantsBefore(msgs, p) ==
    Cardinality({ k \in 1..p : msgs[k].Role = "assistant" })

\* The tool messages of the transcript stand in the order of their calls:
\* the message of call i of reply n stands after the n-th assistant message
\* and before the next one, and after the messages of the calls before i.
ToolMessagesInOrder(msgs) ==
    /\ \A p \in 1..Len(msgs) :
          msgs[p].Role = "tool"
          => AssistantsBefore(msgs, p) = msgs[p].ToolCallID[1]
    /\ \A p, q \in 1..Len(msgs) :
          (p < q /\ msgs[p].Role = "tool" /\ msgs[q].Role = "tool"
             /\ msgs[p].ToolCallID[1] = msgs[q].ToolCallID[1])
          => msgs[p].ToolCallID[2] < msgs[q].ToolCallID[2]

\* C11: the tool calls of a reply are dispatched one at a time in the order
\* of the reply; each tool message is put at the end of the transcript, so
\* that the tool messages stand in the order of the calls, after the
\* assistant message of their reply; and the next LM call is made only when
\* every call of the reply has had its turn.
C11_OrderPreserved ==
    [][ /\ execCount' = execCount + 1
           => /\ pc = "tools"
              /\ lastExec'.id = response.ToolCalls[tcIdx].ID
              /\ tcIdx' = tcIdx + 1
              /\ \A k \in 1..Len(messages) : messages'[k] = messages[k]
        /\ (llmCalls' = llmCalls + 1 /\ pc = "tools")
           => tcIdx > Len(response.ToolCalls)
        /\ (pc' = "tools" /\ tcIdx' > 1) => tcIdx' = tcIdx + 1
        /\ ToolMessagesInOrder(messages') ]_vars

\* Two calls of one reply have their tool messages in the transcript, and the
\* LM has been called again.
C11_Witness ==
    /\ \E p, q \in 1..Len(messages) :
          /\ p < q
          /\ messages[p].Role = "tool" /\ messages[q].Role = "tool"
          /\ messages[p].ToolCallID[1] = messages[q].ToolCallID[1]
    /\ llmCalls > 1
    /\ pc = "tools"

\* C36: every tool message of the transcript carries the id of a tool call
\* that is in the tool-call list of an assistant message standing before it.
C36_ToolCallListed ==
    \A p \in 1..Len(messages) :
        messages[p].Role = "tool"
        => \E q \in 1..(p - 1) :
              /\ messages[q].Role = "assistant"
              /\ \E i \in 1..Len(messages[q].ToolCalls) :
                    messages[q].ToolCalls[i].ID = messages[p].ToolCallID


----------------------------------------------------------------------------
(***************************************************************************)
(* The subagent manager: Spawn and runTask.                                *)
(***************************************************************************)

\* The largest number of subagent tasks spawned in one run of the process.
MaxTasks == 2

AgentTypes == {"chief", "coach"}
\* The scopes a tool call can run under: that of the request being served
\* (it ends with the request), that of the loop that serves the requests
\* (gatewayCmd's ctx), and context.Background().
Scopes == {"request", "root", "background"}

\* main.go:230 and main.go:460: NewSubagentManager(provider, workspace, nil),
\* so sm.bus is nil.
busConfigured == FALSE

\* What tools.RunToolLoop returns to runTask: an error, or a result.
LoopOutcomes ==
    { [err |-> TRUE,  Content |-> "err",    Iterations |-> 0],
      [err |-> FALSE, Content |-> "result", Iterations |-> 1],
      [err |-> FALSE, Content |-> "result", Iterations |-> 2] }

InitSub ==
    /\ tasks = <<>>
    /\ nextID = 1
    /\ taskPc = <<>>
    /\ taskCtx = <<>>
    /\ announced = <<>>
    /\ cancelledScopes = {}

\* manager.go:110-133: register the row and start the goroutine.
Spawn(ctx, agentType, originChannel, originChatID) ==
    /\ nextID <= MaxTasks
    /\ tasks' = Append(tasks, [ID |-> nextID, AgentType |-> agentType,
                               OriginChannel |-> originChannel,
                               OriginChatID |-> originChatID,
                               Status |-> "running", Result |-> "", Iterations |-> 0])
    /\ nextID' = nextID + 1
    /\ taskPc' = Append(taskPc, "start")
    /\ taskCtx' = Append(taskCtx, ctx)
    /\ UNCHANGED <<announced, cancelledScopes>>
    /\ UNCHANGED notSub

\* manager.go:136-160: the goroutine sets the status again and reads the
\* configuration.
RunTaskBegin(i) ==
    /\ i \in 1..Len(tasks)
    /\ taskPc[i] = "start"
    /\ tasks' = [tasks EXCEPT ![i].Status = "running"]
    /\ taskPc' = [taskPc EXCEPT ![i] = "loop"]
    /\ UNCHANGED <<nextID, taskCtx, announced, cancelledScopes>>
    /\ UNCHANGED notSub

\* StatusAfterLoop with a status of its own for the failure.
StatusAfterLoopMut(err) == IF err THEN "error" ELSE "completed"

\* manager.go:173-180: the status the row gets when the loop has returned.
StatusAfterLoop(err) == IF err THEN "failed" ELSE "completed"

\* What tools.RunToolLoop returns when its scope has been cancelled.
LoopCancelled == [err |-> TRUE, Content |-> "context canceled", Iterations |-> 0]

\* manager.go:162-191: the loop has returned (with the error of its scope if
\* that was cancelled under it); update the row and announce.
RunTaskFinish(i, out) ==
    /\ i \in 1..Len(tasks)
    /\ taskPc[i] = "loop"
    /\ out = LoopCancelled => taskCtx[i] \in cancelledScopes
    /\ tasks' = [tasks EXCEPT
                   ![i].Status = StatusAfterLoop(out.err),
                   ![i].Result = IF out.err THEN "Error: " \o out.Content ELSE out.Content,
                   ![i].Iterations = IF out.err THEN @ ELSE out.Iterations]
    /\ taskPc' = [taskPc EXCEPT ![i] = "done"]
    /\ announced' = IF busConfigured
                    THEN Append(announced,
                           [Channel |-> "system", SenderID |-> tasks[i].ID,
                            ChatID |-> <<tasks[i].OriginChannel, tasks[i].OriginChatID>>,
                            Content |-> tasks'[i].Result])
                    ELSE announced
    /\ UNCHANGED <<nextID, taskCtx, cancelledScopes>>
    /\ UNCHANGED notSub

\* A scope is cancelled: that of a request when the request is cancelled or
\* its deadline passes, the root by cancel() (main.go:599), and with the root
\* the scopes derived from it. context.Background() is never cancelled.
CancelScope(scope) ==
    /\ scope \in {"request", "root"}
    /\ scope \notin cancelledScopes
    /\ cancelledScopes' = cancelledScopes
                            \cup (IF scope = "root" THEN {"root", "request"} ELSE {scope})
    /\ UNCHANGED <<tasks, nextID, taskPc, taskCtx, announced>>
    /\ UNCHANGED notSub

NextSub ==
    \/ \E ctx \in Scopes, a \in AgentTypes : Spawn(ctx, a, "cli", "direct")
    \/ \E i \in 1..MaxTasks : RunTaskBegin(i)
    \/ \E i \in 1..MaxTasks, out \in LoopOutcomes \cup {LoopCancelled} : RunTaskFinish(i, out)
    \/ \E scope \in Scopes : CancelScope(scope)

\* C3: the status of a subagent task is always running, completed or failed;
\* a new task starts as running; a status changes only from running, and then
\* to completed or failed, so at most once.
C3_StatusLifecycle ==
    [][ \A i \in 1..Len(tasks') :
          /\ tasks'[i].Status \in {"running", "completed", "failed"}
          /\ IF i > Len(tasks)
             THEN tasks'[i].Status = "running"
             ELSE tasks'[i].Status # tasks[i].Status
                    => /\ tasks[i].Status = "running"
                       /\ tasks'[i].Status \in {"completed", "failed"} ]_vars

C3_Witness ==
    /\ Len(tasks) = 2
    /\ tasks[1].Status = "failed"
    /\ tasks[2].Status = "completed"
    /\ taskPc[1] = "done"
    /\ taskPc[2] = "done"

\* C12: a subagent task outlives the request that spawned it: its loop is
\* ended by a cancellation only when the long-lived scope of the spawning
\* loop (the root) has been cancelled, never by the end or the cancellation
\* of the request alone.
C12_SurvivesRequest ==
    [][ \A i \in 1..Len(tasks) :
          (taskPc[i] = "loop" /\ taskPc'[i] = "done"
             /\ tasks'[i].Result = "Error: context canceled")
          => "root" \in cancelledScopes ]_vars

\* C13: once the loop of a subagent task has returned, the task is no longer
\* running and its final text has been published on the bus exactly once,
\* with the origin channel and chat id of the task.
C13_OutcomePublishedOnce ==
    \A i \in 1..Len(tasks) :
        taskPc[i] = "done"
        => /\ tasks[i].Status # "running"
           /\ Cardinality({ k \in 1..Len(announced) :
                               announced[k].SenderID = tasks[i].ID }) = 1
           /\ \A k \in 1..Len(announced) :
                 announced[k].SenderID = tasks[i].ID
                 => /\ announced[k].ChatID = <<tasks[i].OriginChannel, tasks[i].OriginChatID>>
                    /\ announced[k].Content = tasks[i].Result


----------------------------------------------------------------------------
(***************************************************************************)
(* The gateway: the files the heartbeat reads, the heartbeat handler, the  *)
(* loops the schedulers start, and shutdown.                               *)
(*                                                                         *)
(* Time is in hours; hour 24 * d + h is h o'clock of day d. A deadline     *)
(* file is a set of lines; a line carries the ISO instant printed in it    *)
(* (-1: none). A tasks file is a set of items in one of two formats: "ics" *)
(* (lines PRIORITY:n and STATUS:s) or "xcal" (the XML of xcal.go).         *)
(***************************************************************************)

\* The largest number of heartbeat ticks in one run.
MaxTicks == 2

\* The largest number of suspension points a loop passes before it must return.
MaxSteps == 1

NoFile == [exists |-> FALSE, format |-> "", lines |-> {}]
Line(kind, iso) == [kind |-> kind, iso |-> iso]
Item(priority, status) == [Priority |-> priority, Status |-> status]

\* CalDAV items sync_deadlines finds: the due day (-1: none) and completion.
RemoteItems ==
    { [due |-> d, completed |-> FALSE] : d \in {-1, 0, 1, 2} }
        \cup { [due |-> 0, completed |-> TRUE] }

\* What one listing of the CalDAV store gives.
RemoteListings == { items \in SUBSET RemoteItems : Cardinality(items) <= 2 }

\* architect/skill.go:205-226: the dashboard line of one CalDAV item.
DashboardLines(item, today) ==
    IF item.completed THEN { Line("completed", -1) }
    ELSE IF item.due = -1 THEN {}
    ELSE LET daysDiff == item.due - today IN
         IF daysDiff < 0 THEN { Line("overdue", 24 * item.due) }
         ELSE IF daysDiff = 0 THEN { Line("today", 24 * item.due + 9) }
         ELSE IF daysDiff <= 7 THEN { Line("upcoming", -1) }
         ELSE {}

\* architect/skill.go:156-279: sync_deadlines renders the items and renames
\* the dashboard into architect/memory/deadlines-today.md.
SyncDeadlines(items) ==
    /\ proc = "running"
    /\ archDash' = [exists |-> TRUE, format |-> "md",
                    lines |-> UNION { DashboardLines(it, now \div 24) : it \in items }]
    /\ UNCHANGED <<chiefDash, atcRootTasks, atcMirror, now, hbVars, schedVars>>
    /\ UNCHANGED notGw

ClockTick ==
    /\ proc = "running"
    /\ now < 34
    /\ now' = now + 2
    /\ UNCHANGED <<chiefDash, archDash, atcRootTasks, atcMirror, hbVars, schedVars>>
    /\ UNCHANGED notGw

\* strings.Contains on a deadline file.
ContainsTag(file, tag) == \E l \in file.lines : l.kind = tag
ContainsT0000(file) == \E l \in file.lines : l.iso >= 0 /\ l.iso % 24 = 0

\* strings.Contains on a tasks file: the needles are ICS lines, which the
\* xCal XML does not hold.
ContainsPriority(file, n) ==
    file.format = "ics" /\ \E it \in file.lines : it.Priority = n
ContainsStatusCompleted(file) ==
    file.format = "ics" /\ \E it \in file.lines : it.Status = "COMPLETED"

\* main.go:493-499: the check of the deadline file.
deadlinesUrgent(file) ==
    /\ file.exists
    /\ (ContainsTag(file, "[P0]") \/ ContainsTag(file, "[P1]") \/ ContainsT0000(file))

\* tasksUrgent without the test for STATUS:COMPLETED.
tasksUrgentMut(file) ==
    /\ file.exists
    /\ (ContainsPriority(file, 0) \/ ContainsPriority(file, 1))

\* main.go:501-507: the check of the tasks file.
tasksUrgent(file) ==
    /\ file.exists
    /\ (ContainsPriority(file, 0) \/ ContainsPriority(file, 1))
    /\ ~ContainsStatusCompleted(file)

\* main.go:491-509.
isUrgent == deadlinesUrgent(chiefDash) \/ tasksUrgent(atcRootTasks)

SilentResult(text) ==
    [isNil |-> FALSE, ForLLM |-> text, ForUser |-> "", Silent |-> TRUE, IsError |-> FALSE]
ErrorResult(text) ==
    [isNil |-> FALSE, ForLLM |-> text, ForUser |-> text, Silent |-> FALSE, IsError |-> TRUE]

\* main.go:513-520: the result of the handler once ProcessHeartbeat returned.
HandlerResult(reply, err) ==
    IF err THEN ErrorResult("Heartbeat error")
    ELSE IF reply = "HEARTBEAT_OK" THEN SilentResult("Heartbeat OK")
    ELSE SilentResult(reply)

\* The heartbeat service with the result of its handler: a result that is
\* neither silent nor an error is sent on the origin channel.
Publish(result, channel, chatID) ==
    IF ~result.Silent /\ ~result.IsError
    THEN Append(outbound, [Channel |-> channel, ChatID |-> chatID,
                           Content |-> IF result.ForUser # "" THEN result.ForUser
                                       ELSE result.ForLLM])
    ELSE outbound

LoopKinds == {"heartbeat", "inbound", "cron", "subagent"}

NoHB == [pc |-> "idle", drove |-> FALSE, channel |-> "", chatID |-> "",
         reply |-> "", err |-> FALSE, result |-> NilResult]

\* main.go:486-513: a tick of the heartbeat service runs the handler, which
\* either returns the silent result or calls agentLoop.ProcessHeartbeat with
\* context.Background().
HeartbeatTick(channel, chatID) ==
    /\ proc = "running"
    /\ hb.pc \in {"idle", "returned"}
    /\ hbTicks < MaxTicks
    /\ hbTicks' = hbTicks + 1
    /\ LET empty == channel = "" \/ chatID = ""
           ch == IF empty THEN "cli" ELSE channel
           id == IF empty THEN "direct" ELSE chatID
       IN  IF ~isUrgent
           THEN /\ hb' = [pc |-> "returned", drove |-> FALSE, channel |-> ch, chatID |-> id,
                          reply |-> "", err |-> FALSE,
                          result |-> SilentResult("Heartbeat OK")]
                /\ outbound' = Publish(SilentResult("Heartbeat OK"), ch, id)
                /\ UNCHANGED <<loopState, loopCtx, loopSteps>>
           ELSE /\ hb' = [pc |-> "dispatching", drove |-> TRUE, channel |-> ch, chatID |-> id,
                          reply |-> "", err |-> FALSE, result |-> NilResult]
                /\ loopState' = [loopState EXCEPT !["heartbeat"] = "inflight"]
                /\ loopCtx' = [loopCtx EXCEPT !["heartbeat"] = "background"]
                /\ loopSteps' = [loopSteps EXCEPT !["heartbeat"] = 0]
                /\ UNCHANGED outbound
    /\ UNCHANGED <<fileVars, rootCancelled, proc>>
    /\ UNCHANGED notGw

\* A scope is cancelled when it derives from the cancelled root;
\* context.Background() never is.
Cancelled(ctx) == ctx = "root" /\ rootCancelled

\* main.go:592: agentLoop.Run(ctx) serves an inbound message under the root scope.
InboundMessage ==
    /\ proc = "running"
    /\ loopState["inbound"] = "none"
    /\ loopState' = [loopState EXCEPT !["inbound"] = "inflight"]
    /\ loopCtx' = [loopCtx EXCEPT !["inbound"] = "root"]
    /\ UNCHANGED <<fileVars, hbVars, loopSteps, rootCancelled, proc>>
    /\ UNCHANGED notGw

\* main.go:383-386: a due cron job runs cronTool.ExecuteJob(context.Background(), job).
CronFire ==
    /\ proc = "running"
    /\ loopState["cron"] = "none"
    /\ loopState' = [loopState EXCEPT !["cron"] = "inflight"]
    /\ loopCtx' = [loopCtx EXCEPT !["cron"] = "background"]
    /\ UNCHANGED <<fileVars, hbVars, loopSteps, rootCancelled, proc>>
    /\ UNCHANGED notGw

\* rfc.go:301 and manager.go:127: a loop dispatches the subagent tool, and
\* runTask gets the scope of that loop.
SpawnSubagent(parent) ==
    /\ proc # "exited"
    /\ parent # "subagent"
    /\ loopState[parent] = "inflight"
    /\ ~Cancelled(loopCtx[parent])
    /\ loopState["subagent"] = "none"
    /\ loopState' = [loopState EXCEPT !["subagent"] = "inflight"]
    /\ loopCtx' = [loopCtx EXCEPT !["subagent"] = loopCtx[parent]]
    /\ UNCHANGED <<fileVars, hbVars, loopSteps, rootCancelled, proc>>
    /\ UNCHANGED notGw

\* What a suspension point of a loop (an LM call) gives when the scope of the
\* loop is not cancelled.
StepOutcomes ==
    { [more |-> TRUE,  reply |-> "",             err |-> FALSE],
      [more |-> FALSE, reply |-> "HEARTBEAT_OK", err |-> FALSE],
      [more |-> FALSE, reply |-> "3 deadlines",  err |-> FALSE],
      [more |-> FALSE, reply |-> "",             err |-> TRUE] }

CancelledOutcome == [more |-> FALSE, reply |-> "", err |-> TRUE]

\* One suspension point of loop l: with its scope cancelled the call fails
\* and the loop returns; otherwise it goes on or returns. The heartbeat
\* handler (main.go:513-520) goes on with what its loop returned.
LoopStep(l, o) ==
    /\ proc # "exited"
    /\ loopState[l] = "inflight"
    /\ LET out == IF Cancelled(loopCtx[l]) THEN CancelledOutcome ELSE o IN
         /\ out.more => loopSteps[l] < MaxSteps
         /\ loopSteps' = [loopSteps EXCEPT ![l] = @ + 1]
         /\ loopState' = [loopState EXCEPT ![l] = IF out.more THEN "inflight" ELSE "returned"]
         /\ IF l = "heartbeat" /\ ~out.more
            THEN /\ hb' = [hb EXCEPT !.pc = "returned", !.reply = out.reply, !.err = out.err,
                                     !.result = HandlerResult(out.reply, out.err)]
                 /\ outbound' = Publish(HandlerResult(out.reply, out.err), hb.channel, hb.chatID)
            ELSE UNCHANGED <<hb, outbound>>
    /\ UNCHANGED <<fileVars, hbTicks, loopCtx, rootCancelled, proc>>
    /\ UNCHANGED notGw

\* main.go:594-599: only os.Interrupt is registered with signal.Notify. SIGINT
\* wakes gatewayCmd, which calls cancel() and stops the services; SIGTERM
\* takes the default action and ends the process.
Signal(sig) ==
    /\ proc = "running"
    /\ IF sig = "SIGINT"
       THEN rootCancelled' = TRUE /\ proc' = "stopping"
       ELSE rootCancelled' = rootCancelled /\ proc' = "exited"
    /\ UNCHANGED <<fileVars, hbVars, loopState, loopCtx, loopSteps>>
    /\ UNCHANGED notGw

\* main.go:600-607: the services are stopped and gatewayCmd returns.
Exit ==
    /\ proc = "stopping"
    /\ proc' = "exited"
    /\ UNCHANGED <<fileVars, hbVars, loopState, loopCtx, loopSteps, rootCancelled>>
    /\ UNCHANGED notGw

\* The files found at start: the workspace outlives the process, and the
\* two files the heartbeat reads have no writer in the program.
ChiefDashFiles ==
    { NoFile,
      [exists |-> TRUE, format |-> "md", lines |-> {}],
      [exists |-> TRUE, format |-> "md", lines |-> { Line("upcoming", -1) }],
      [exists |-> TRUE, format |-> "md", lines |-> { Line("[P1]", -1) }],
      [exists |-> TRUE, format |-> "md", lines |-> { Line("[P0]", -1) }],
      [exists |-> TRUE, format |-> "md", lines |-> { Line("overdue", 0) }],
      [exists |-> TRUE, format |-> "md", lines |-> { Line("today", 33) }] }

TaskSets ==
    { {},
      { Item(1, "NEEDS-ACTION") },
      { Item(1, "COMPLETED") },
      { Item(5, "NEEDS-ACTION") },
      { Item(1, "NEEDS-ACTION"), Item(5, "COMPLETED") } }

RootTaskFiles ==
    { NoFile } \cup
    { [exists |-> TRUE, format |-> f, lines |-> ts] : f \in {"ics", "xcal"}, ts \in TaskSets }

\* atc/skill.go:132-142: the mirror is xCal XML, empty when initWorkspace made it.
MirrorFiles ==
    { [exists |-> TRUE, format |-> "xcal", lines |-> ts] :
        ts \in { {}, { Item(1, "NEEDS-ACTION") }, { Item(1, "COMPLETED") } } }

InitSched ==
    /\ loopState = [l \in LoopKinds |-> "none"]
    /\ loopCtx = [l \in LoopKinds |-> "none"]
    /\ loopSteps = [l \in LoopKinds |-> 0]
    /\ rootCancelled = FALSE
    /\ proc = "running"
    /\ hb = NoHB
    /\ hbTicks = 0
    /\ outbound = <<>>
    /\ archDash = NoFile
    /\ now = 30

\* The gateway with the heartbeat's files as they are when nothing wrote them.
InitGw ==
    /\ InitSched
    /\ chiefDash = NoFile
    /\ atcRootTasks = NoFile
    /\ atcMirror = [exists |-> TRUE, format |-> "xcal", lines |-> {}]

NextHeartbeat ==
    \/ \E items \in RemoteListings : SyncDeadlines(items)
    \/ ClockTick
    \/ \E c \in {<<"", "">>, <<"telegram", "42">>} : HeartbeatTick(c[1], c[2])
    \/ \E o \in StepOutcomes : LoopStep("heartbeat", o)

NextShutdown ==
    \/ HeartbeatTick("telegram", "42")
    \/ InboundMessage
    \/ CronFire
    \/ \E parent \in LoopKinds : SpawnSubagent(parent)
    \/ \E l \in LoopKinds, o \in StepOutcomes : LoopStep(l, o)
    \/ \E sig \in {"SIGINT", "SIGTERM"} : Signal(sig)
    \/ Exit


\* A line of the section "URGENT (Due Today / Overdue)" or a priority tag.
UrgentMarker(file) ==
    /\ file.exists
    /\ \E l \in file.lines : l.kind \in {"[P0]", "[P1]", "overdue", "today"}

\* An item of priority 0 or 1 that is neither completed nor cancelled.
OpenUrgentItem(file) ==
    /\ file.exists
    /\ \E it \in file.lines :
          it.Priority \in {0, 1} /\ it.Status \notin {"COMPLETED", "CANCELLED"}

\* An ISO instant that is at most 2 hours ahead of the clock.
ImminentDeadline(file) ==
    /\ file.exists
    /\ \E l \in file.lines : l.iso >= 0 /\ l.iso - now >= 0 /\ l.iso - now < 2

\* C4: on SIGINT or SIGTERM the root scope is cancelled, and from then on
\* every in-flight loop (inbound, heartbeat, cron, subagent) that reaches
\* its next suspension point returns there.
C4_ShutdownCancelsLoops ==
    [][ /\ (proc = "running" /\ proc' # "running") => rootCancelled'
        /\ \A l \in LoopKinds :
              (rootCancelled /\ loopState[l] = "inflight"
                  /\ loopSteps'[l] = loopSteps[l] + 1)
              => loopState'[l] = "returned" ]_vars

C6_UrgentDrivesLoop ==
    [][ (/\ hbTicks' = hbTicks + 1
         /\ (ImminentDeadline(archDash) \/ OpenUrgentItem(atcMirror)))
        => /\ hb'.pc = "dispatching"
           /\ hb'.drove
           /\ loopState'["heartbeat"] = "inflight" ]_vars

\* C7: once the loop the heartbeat drove has returned a reply, the result is
\* silent if the reply is HEARTBEAT_OK; for any other reply it is not silent
\* and the reply is on the outbound side, addressed to the origin channel.
C7_ReplyRouting ==
    (hb.pc = "returned" /\ hb.drove /\ ~hb.err)
    => IF hb.reply = "HEARTBEAT_OK"
       THEN hb.result.Silent
       ELSE /\ ~hb.result.Silent
            /\ \E i \in 1..Len(outbound) :
                  outbound[i] = [Channel |-> hb.channel, ChatID |-> hb.chatID,
                                 Content |-> hb.reply]


----------------------------------------------------------------------------
(***************************************************************************)
(* The dedup engine of the news skill and its store.                       *)
(*                                                                         *)
(* Time is in units of 6 hours. A map of the engine is a function from the *)
(* keys it holds to times. The store is a function from hash to row: hash  *)
(* is the primary key of dedup_cache.                                      *)
(***************************************************************************)

\* The largest number of fetches in one run.
MaxFetches == 2

\* The largest number of items the feeds give to one fetch.
MaxItems == 2

\* The last instant of the clock.
MaxTime == 57

SevenDays == 28
FuzzyThreshold == 80
TimeWindowBreaking == 1
TimeWindowBD == 4
TimeWindowAI == 8

\* skill.go:893-899. A category that is not in the table has window 0.
timeWindows(category) ==
    CASE category = "world" -> TimeWindowBreaking
      [] category = "bangladesh" -> TimeWindowBD
      [] category = "tech" -> TimeWindowAI
      [] category = "ai" -> TimeWindowAI
      [] category = "default" -> TimeWindowBD
      [] OTHER -> 0

Put(m, k, v) == [x \in DOMAIN m \cup {k} |-> IF x = k THEN v ELSE m[x]]
EmptyMap == <<>>
EmptyCache == [seenURLs |-> EmptyMap, seenTitles |-> EmptyMap, seenBodies |-> EmptyMap]

\* What a feed holds: the link (with its query parameters), the description,
\* the title, and how long ago the entry was published.
Entry(base, query, desc, title, source, age) ==
    [Base |-> base, Query |-> query, Description |-> desc, Title |-> title,
     Source |-> source, Category |-> "tech", Age |-> age]

FeedEntries ==
    { Entry("https://a/1", <<"id=7", "utm_source=rss">>, "x", "Flood!", "A", 0),
      Entry("https://a/1", <<"id=7">>, "y", "strike", "B", 0),
      Entry("https://a/1", <<"fbclid=q", "id=7">>, "w", "Bumpy", "B", 29),
      Entry("", <<>>, "", "hang", "A", 0),
      Entry("", <<>>, "z", "Bumpy", "B", 0) }

\* What the feeds can give to one fetch.
FeedAnswers ==
    UNION { [1..n -> FeedEntries] : n \in 0..MaxItems }

TrackingParams ==
    {"utm_source", "utm_medium", "utm_campaign", "ref", "source", "fbclid", "gclid"}

\* The name of a query parameter "name=value" of the feeds.
ParamName(p) ==
    CASE p = "utm_source=rss" -> "utm_source"
      [] p = "fbclid=q" -> "fbclid"
      [] p = "id=7" -> "id"

RECURSIVE JoinParams(_)
JoinParams(ps) ==
    IF ps = <<>> THEN ""
    ELSE IF Len(ps) = 1 THEN ps[1]
    ELSE ps[1] \o "&" \o JoinParams(Tail(ps))

\* skill.go:1412-1430: the tracking parameters and the fragment are removed.
canonicalizeURL(base, query) ==
    IF base = "" THEN ""
    ELSE LET keep(p) == ParamName(p) \notin TrackingParams
             kept == SelectSeq(query, keep)
         IN  IF kept = <<>> THEN base ELSE base \o "?" \o JoinParams(kept)

\* skill.go:1452-1457 on the titles of the feeds: lower case, no punctuation.
normalizeTitle(title) ==
    CASE title = "Flood!" -> "flood"
      [] title = "Bumpy" -> "bumpy"
      [] OTHER -> title

\* skill.go:1466-1473: no hash for an empty text.
hashBody(text) == IF text = "" THEN "" ELSE "sha256(" \o text \o ")"

\* skill.go:1389-1410: an entry without title is dropped by fetchFeed.
normalizeItem(e, tnow) ==
    [Source |-> e.Source, Category |-> e.Category,
     CanonicalURL |-> canonicalizeURL(e.Base, e.Query),
     TitleNormal |-> normalizeTitle(e.Title),
     BodyHash |-> hashBody(e.Description),
     PublishedAt |-> tnow - e.Age]

\* strings.Fields on the normalized titles of the feeds.
Fields(title) ==
    CASE title = "" -> <<>>
      [] title = "kill 12" -> <<"kill", "12">>
      [] title = "kill 20" -> <<"kill", "20">>
      [] OTHER -> <<title>>

\* The digit runs of a title (the words of the feeds are all digits or none).
DigitRuns(words) == SelectSeq(words, LAMBDA w : w \in {"12", "20"})

\* skill.go:1683-1702.
hasDifferentNumbersInTitleMut(words1, words2) ==
    Len(DigitRuns(words1)) # Len(DigitRuns(words2))

hasDifferentNumbersInTitle(words1, words2) ==
    LET nums1 == DigitRuns(words1)
        nums2 == DigitRuns(words2)
    IN  IF nums1 = <<>> /\ nums2 = <<>> THEN FALSE
        ELSE IF Len(nums1) # Len(nums2) THEN TRUE
        ELSE \E i \in 1..Len(nums1) : nums1[i] # nums2[i]

\* skill.go:1630-1665. "12 kill" and "20 kill", the sorted words of the two
\* titles with numbers, have 6 of 7 characters matching in order and no
\* common prefix: Jaro-Winkler is (6/7 + 6/7 + 1)/3 = 0.90.  Any two other
\* titles of the feeds that differ have no character in common, so that
\* Jaro-Winkler, Levenshtein and Jaccard all give 0.
computeSimilarityScore(s1, s2) ==
    IF hasDifferentNumbersInTitle(Fields(s1), Fields(s2)) THEN 0
    ELSE IF s1 = s2 THEN 100
    ELSE IF {s1, s2} = {"kill 12", "kill 20"} THEN 90
    ELSE 0

\* skill.go:1498-1528: "" for a new item, else the kind of duplicate.
checkDuplicate(c, item, tnow) ==
    IF item.CanonicalURL \in DOMAIN c.seenURLs
          /\ tnow - c.seenURLs[item.CanonicalURL] < SevenDays
    THEN "url-dup"
    ELSE IF item.BodyHash \in DOMAIN c.seenBodies
          /\ tnow - c.seenBodies[item.BodyHash] < SevenDays
    THEN "body-dup"
    ELSE LET w == timeWindows(item.Category)
             window == IF w = 0 THEN timeWindows("default") ELSE w
         IN  IF \E t \in DOMAIN c.seenTitles :
                    /\ ~(tnow - c.seenTitles[t] > window)
                    /\ computeSimilarityScore(item.TitleNormal, t) >= FuzzyThreshold
             THEN "title-dup"
             ELSE ""

Row(hashType, seenAt, expiresAt) ==
    [hash_type |-> hashType, seen_at |-> seenAt, expires_at |-> expiresAt]

\* part_013:347-353: INSERT OR REPLACE on the primary key hash.
InsertDedupCache(st, hashType, hash, seenAt, expiresAt) ==
    Put(st, hash, Row(hashType, seenAt, expiresAt))

\* part_013:355-377: the rows of one type that have not expired.
GetDedupCache(st, hashType, tnow) ==
    LET hs == { h \in DOMAIN st : st[h].hash_type = hashType /\ st[h].expires_at > tnow }
    IN  [h \in hs |-> st[h].seen_at]

\* skill.go:1704-1719: the maps and the store after markSeen(item).
markSeen(cs, item) ==
    LET itemTime == item.PublishedAt
        expireAt == itemTime + SevenDays
        st1 == InsertDedupCache(cs.store, "url", item.CanonicalURL, itemTime, expireAt)
        st2 == InsertDedupCache(st1, "body", item.BodyHash, itemTime, expireAt)
        st3 == InsertDedupCache(st2, "title", item.TitleNormal, itemTime, expireAt)
    IN  [cache |-> [seenURLs |-> Put(cs.cache.seenURLs, item.CanonicalURL, itemTime),
                    seenBodies |-> Put(cs.cache.seenBodies, item.BodyHash, itemTime),
                    seenTitles |-> Put(cs.cache.seenTitles, item.TitleNormal, itemTime)],
         store |-> st3]

RECURSIVE markAll(_, _)
markAll(cs, items) ==
    IF items = <<>> THEN cs ELSE markAll(markSeen(cs, Head(items)), Tail(items))

\* skill.go:1731-1746: every key of the maps is written again, the URLs
\* first, then the titles, then the body hashes.
persistDedupCache(c, st, tnow) ==
    LET keys == DOMAIN c.seenURLs \cup DOMAIN c.seenTitles \cup DOMAIN c.seenBodies IN
    [h \in DOMAIN st \cup keys |->
        IF h \in DOMAIN c.seenBodies THEN Row("body", c.seenBodies[h], tnow + SevenDays)
        ELSE IF h \in DOMAIN c.seenTitles THEN Row("title", c.seenTitles[h], tnow + SevenDays)
        ELSE IF h \in DOMAIN c.seenURLs THEN Row("url", c.seenURLs[h], tnow + SevenDays)
        ELSE st[h]]

Merge(m, l) == [k \in DOMAIN m \cup DOMAIN l |-> IF k \in DOMAIN l THEN l[k] ELSE m[k]]

\* skill.go:1748-1769.
loadDedupCache(c, st, tnow) ==
    [seenURLs |-> Merge(c.seenURLs, GetDedupCache(st, "url", tnow)),
     seenTitles |-> Merge(c.seenTitles, GetDedupCache(st, "title", tnow)),
     seenBodies |-> Merge(c.seenBodies, GetDedupCache(st, "body", tnow))]


Swap(q, i, j) == [q EXCEPT ![i] = q[j], ![j] = q[i]]

\* skill.go:1158-1169: element i changes place with element
\* (currentFetch + i) % len, for i = 0, 1, ...
RECURSIVE ShuffleFrom(_, _, _)
ShuffleFrom(q, i, currentFetch) ==
    IF i >= Len(q) THEN q
    ELSE ShuffleFrom(Swap(q, i + 1, ((currentFetch + i) % Len(q)) + 1), i + 1, currentFetch)

Shuffle(q, currentFetch) == IF Len(q) > 1 THEN ShuffleFrom(q, 0, currentFetch) ELSE q

\* skill.go:1172-1196: one item of each source in turn, the sources in the
\* order of their first item.
RECURSIVE RoundRobinFrom(_, _, _)
RoundRobinFrom(q, sources, out) ==
    IF q = <<>> THEN out
    ELSE LET first(src) == CHOOSE i \in 1..Len(q) :
                              /\ q[i].Source = src
                              /\ \A j \in 1..(i - 1) : q[j].Source # src
             live == SelectSeq(sources, LAMBDA src : \E i \in 1..Len(q) : q[i].Source = src)
             picks == { first(live[k]) : k \in 1..Len(live) }
             rest == { i \in 1..Len(q) : i \notin picks }
             nth(k) == CHOOSE i \in rest : Cardinality({ j \in rest : j < i }) = k - 1
         IN  RoundRobinFrom([k \in 1..Cardinality(rest) |-> q[nth(k)]], live,
                            out \o [k \in 1..Len(live) |-> q[first(live[k])]])

RECURSIVE SourcesOf(_, _)
SourcesOf(q, seen) ==
    IF q = <<>> THEN seen
    ELSE SourcesOf(Tail(q),
                   IF \E k \in 1..Len(seen) : seen[k] = Head(q).Source
                   THEN seen ELSE Append(seen, Head(q).Source))

RoundRobin(q) == RoundRobinFrom(q, SourcesOf(q, <<>>), <<>>)

Take(q, n) == SubSeq(q, 1, IF n < Len(q) THEN n ELSE Len(q))

RECURSIVE ShowAll(_, _, _)
ShowAll(shown, q, currentFetch) ==
    IF q = <<>> THEN shown
    ELSE ShowAll(Put(shown, Head(q).CanonicalURL, currentFetch), Tail(q), currentFetch)

\* skill.go:1131-1297: what executeFetch does with the items of the feeds.
Dedup(c, st, shown, items, currentFetch, limit, tnow) ==
    LET isNew(it) == checkDuplicate(c, it, tnow) = ""
        isDup(it) == ~isNew(it)
        deduped == RoundRobin(Shuffle(SelectSeq(items, isNew), currentFetch))
        rotated == Shuffle(SelectSeq(items, isDup), currentFetch)
        cs == markAll([cache |-> c, store |-> st], deduped)
        shown1 == ShowAll(shown, deduped, currentFetch)
        eligible1(it) == \/ it.CanonicalURL \notin DOMAIN shown1
                         \/ currentFetch - shown1[it.CanonicalURL] >= 1
        fill == Take(RoundRobin(SelectSeq(rotated, eligible1)), limit - Len(deduped))
        shown2 == ShowAll(shown1, fill, currentFetch)
        sofar == deduped \o fill
        eligible2(it) == /\ \A k \in 1..Len(sofar) : sofar[k].CanonicalURL # it.CanonicalURL
                         /\ \/ it.CanonicalURL \notin DOMAIN shown2
                            \/ currentFetch - shown2[it.CanonicalURL] >= 1
        desperate == IF Len(sofar) < limit
                     THEN Take(SelectSeq(rotated, eligible2), limit - Len(sofar))
                     ELSE <<>>
    IN  [deduped |-> deduped,
         cache |-> cs.cache,
         store |-> cs.store,
         shown |-> IF Len(deduped) < limit
                   THEN ShowAll(shown2, desperate, currentFetch) ELSE shown1,
         results |-> IF Len(deduped) < limit
                     THEN sofar \o desperate ELSE Take(deduped, limit)]

NoMarks == [seenURLs |-> <<>>, seenTitles |-> <<>>, seenBodies |-> <<>>]

RECURSIVE MarkLog(_, _, _)
MarkLog(m, items, tnow) ==
    IF items = <<>> THEN m
    ELSE LET it == Head(items)
             e == [v |-> it.PublishedAt, at |-> tnow]
         IN  MarkLog([seenURLs |-> Put(m.seenURLs, it.CanonicalURL, e),
                      seenBodies |-> Put(m.seenBodies, it.BodyHash, e),
                      seenTitles |-> Put(m.seenTitles, it.TitleNormal, e)],
                     Tail(items), tnow)

InitDedup ==
    /\ clock = 29
    /\ cache = EmptyCache
    /\ shownURLs = <<>>
    /\ fetchCount = 0
    /\ dbOpen = FALSE
    /\ store = <<>>
    /\ fetchPc = "idle"
    /\ allItems = <<>>
    /\ fetchLimit = 0
    /\ loaded = FALSE
    /\ results = <<>>
    /\ fetches = 0
    /\ admitted = <<>>
    /\ marked = NoMarks

\* skill.go:1056-1129: the limit is read, the store is opened and loaded if
\* this engine has none yet, and the feeds are fetched and parsed.
FetchOpen(entries, limit) ==
    /\ fetchPc = "idle"
    /\ fetches < MaxFetches
    /\ fetchLimit' = IF limit = 0 THEN 10 ELSE limit
    /\ dbOpen' = TRUE
    /\ loaded' = ~dbOpen
    /\ cache' = IF dbOpen THEN cache ELSE loadDedupCache(cache, store, clock)
    /\ allItems' = [i \in 1..Len(entries) |-> normalizeItem(entries[i], clock)]
    /\ fetchPc' = "fetched"
    /\ UNCHANGED <<clock, shownURLs, fetchCount, store, results, fetches, admitted, marked>>
    /\ UNCHANGED notDedup

\* skill.go:1131-1300: the duplicates are told from the new items, the new
\* items are marked, the results are cut to the limit, the maps are saved.
FetchDedup ==
    /\ fetchPc = "fetched"
    /\ LET d == Dedup(cache, store, shownURLs, allItems, fetchCount + 1, fetchLimit, clock) IN
         /\ fetchCount' = fetchCount + 1
         /\ cache' = d.cache
         /\ store' = persistDedupCache(d.cache, d.store, clock)
         /\ shownURLs' = d.shown
         /\ results' = d.results
         /\ admitted' = admitted \o [k \in 1..Len(d.deduped) |->
                                       [url |-> d.deduped[k].CanonicalURL, at |-> clock]]
         /\ marked' = MarkLog(marked, d.deduped, clock)
    /\ fetches' = fetches + 1
    /\ fetchPc' = "idle"
    /\ allItems' = <<>>
    /\ loaded' = FALSE
    /\ UNCHANGED <<clock, dbOpen, fetchLimit>>
    /\ UNCHANGED notDedup

\* The process ends and starts again: a new engine, the same monitor.db.
Restart ==
    /\ dbOpen
    /\ cache' = EmptyCache
    /\ shownURLs' = <<>>
    /\ fetchCount' = 0
    /\ dbOpen' = FALSE
    /\ fetchPc' = "idle"
    /\ allItems' = <<>>
    /\ loaded' = FALSE
    /\ results' = <<>>
    /\ UNCHANGED <<clock, store, fetchLimit, fetches, admitted, marked>>
    /\ UNCHANGED notDedup

Advance(d) ==
    /\ fetchPc = "idle"
    /\ clock + d <= MaxTime
    /\ clock' = clock + d
    /\ UNCHANGED <<cache, shownURLs, fetchCount, dbOpen, store, fetchPc, allItems,
                   fetchLimit, loaded, results, fetches, admitted, marked>>
    /\ UNCHANGED notDedup

NextDedup ==
    \/ \E entries \in FeedAnswers, limit \in {0, 1} : FetchOpen(entries, limit)
    \/ FetchDedup
    \/ Restart
    \/ \E d \in {4, 24} : Advance(d)

\* C2: of the items with one (not empty) canonical URL the engine lets through at most
\* one in any 7 days, be they in one fetch, in two fetches, or on the two
\* sides of a restart.
C2_OneAdmissionPerURL ==
    \A i, j \in 1..Len(admitted) :
        (i < j /\ admitted[i].url # "" /\ admitted[i].url = admitted[j].url)
        => admitted[j].at - admitted[i].at >= SevenDays

\* C8: when an engine has loaded the store after a restart, every key that
\* markSeen wrote to a map less than 7 days ago is in that map again, with
\* the time markSeen gave it.
C8_RestartRestoresKeys ==
    (fetchPc = "fetched" /\ loaded)
    => \A kind \in {"seenURLs", "seenTitles", "seenBodies"} :
          \A k \in DOMAIN marked[kind] :
              clock - marked[kind][k].at < SevenDays
              => /\ k \in DOMAIN cache[kind]
                 /\ cache[kind][k] = marked[kind][k].v

\* The feeds of the fetches that try the title check: one entry per
\* category with the title "strike", each with a link and a text of its
\* own, and two entries whose titles differ in their number only.
TitleEntries ==
    { [Entry("https://c/" \o k, <<>>, k, "strike", "A", 0) EXCEPT !.Category = k] :
         k \in {"world", "breaking", "bangladesh", "tech", "ai", "research", "sports"} }
    \cup { [Entry("https://d/12", <<>>, "twelve", "kill 12", "A", 0) EXCEPT !.Category = "world"],
            [Entry("https://d/20", <<>>, "twenty", "kill 20", "B", 0) EXCEPT !.Category = "world"] }

\* Fetches of one item each, at the same time or 18 hours or 6 days apart.
NextTitle ==
    \/ \E e \in TitleEntries : FetchOpen(<<e>>, 0)
    \/ FetchDedup
    \/ \E d \in {3, 24} : Advance(d)

\* C19: an item with a new link and a new text is told a duplicate when its
\* title was seen inside the window of its category (world and breaking 6
\* hours, bangladesh 24 hours, tech and ai 48 hours, research 7 days, any
\* other 24 hours), and is let through when its title was seen outside of
\* it (no other title of the feeds being similar).
C19_CategoryWindows ==
    [][ (fetchPc = "fetched" /\ fetchPc' = "idle")
        => \A i \in 1..Len(allItems) :
              LET it == allItems[i]
                  k == it.Category
                  window == CASE k \in {"world", "breaking"} -> 1
                              [] k = "bangladesh" -> 4
                              [] k \in {"tech", "ai"} -> 8
                              [] k = "research" -> 28
                              [] OTHER -> 4
                  through == \E n \in 1..Len(admitted') :
                                /\ n > Len(admitted)
                                /\ admitted'[n].url = it.CanonicalURL
              IN (/\ it.TitleNormal = "strike"
                  /\ it.CanonicalURL \notin DOMAIN cache.seenURLs
                  /\ it.BodyHash \notin DOMAIN cache.seenBodies
                  /\ "strike" \in DOMAIN cache.seenTitles)
                 => (through <=> clock - cache.seenTitles["strike"] > window)
      ]_vars

\* C20: the score of two titles that differ in their digit runs only is 0,
\* and an item with a new link and a new text whose title differs so from
\* a title seen inside the window of its category (its own title not seen
\* inside it) is let through.
C20_NumberGuard ==
    [][ (fetchPc = "fetched" /\ fetchPc' = "idle")
        => \A i \in 1..Len(allItems) :
              LET it == allItems[i]
                  inside(t) == /\ t \in DOMAIN cache.seenTitles
                               /\ clock - cache.seenTitles[t] <= 1
              IN \A t \in {"kill 12", "kill 20"} :
                    (/\ {it.TitleNormal, t} = {"kill 12", "kill 20"}
                     /\ inside(t)
                     /\ ~inside(it.TitleNormal)
                     /\ it.CanonicalURL \notin DOMAIN cache.seenURLs
                     /\ it.BodyHash \notin DOMAIN cache.seenBodies)
                    => /\ computeSimilarityScore(it.TitleNormal, t) = 0
                       /\ \E n \in 1..Len(admitted') :
                             /\ n > Len(admitted)
                             /\ admitted'[n].url = it.CanonicalURL
      ]_vars

\* The two items whose titles differ in the number only have both been let
\* through, by two fetches less than 6 hours apart.
C20_Witness ==
    \E i, j \in 1..Len(admitted) :
        /\ i < j
        /\ {admitted[i].url, admitted[j].url} = {"https://d/12", "https://d/20"}
        /\ admitted[j].at - admitted[i].at <= 1

\* C33: a key (canonical URL or body hash, not empty) that a fetch marked
\* less than 7 days ago is not marked again by a later fetch: the item that
\* carries it is rejected, whenever it was published.
C33_AdmittedStaysRejected ==
    [][ (fetchPc = "fetched" /\ fetchPc' = "idle")
        => \A kind \in {"seenURLs", "seenBodies"} :
              \A k \in DOMAIN marked[kind] :
                  (k # "" /\ clock - marked[kind][k].at < SevenDays)
                  => marked'[kind][k] = marked[kind][k]
      ]_vars

\* C34: every item a fetch marks as seen is among the results of that fetch.
C34_MarkedIsReturned ==
    [][ (fetchPc = "fetched" /\ fetchPc' = "idle")
        => \A n \in 1..Len(admitted') :
              n > Len(admitted)
              => \E i \in 1..Len(results') : results'[i].CanonicalURL = admitted'[n].url
      ]_vars

\* C35: every row of the store expires 7 days after the time its key was
\* seen.
C35_ExpiresSevenDaysAfterSeen ==
    \A h \in DOMAIN store : store[h].expires_at = store[h].seen_at + SevenDays

\* C40: the store has a row for every key under every type it was marked
\* with: the row of a URL is not taken over by the row of a body hash or of
\* a title made of the same characters.
C40_RowPerHashAndType ==
    \A kind \in {"seenURLs", "seenBodies", "seenTitles"} :
        \A k \in DOMAIN marked[kind] :
            /\ k \in DOMAIN store
            /\ store[k].hash_type = CASE kind = "seenURLs" -> "url"
                                      [] kind = "seenBodies" -> "body"
                                      [] OTHER -> "title"

\* Two unrelated items without summary.
EmptySummaryEntries ==
    { Entry("https://a/1", <<"id=7">>, "", "Flood!", "A", 0),
      Entry("https://b/2", <<>>, "", "strike", "B", 0) }

\* Fetches of one item without summary each.
NextEmpty ==
    \/ \E e \in EmptySummaryEntries : FetchOpen(<<e>>, 0)
    \/ FetchDedup
    \/ \E d \in {3, 24} : Advance(d)

\* C37: the two items without summary, with links and titles of their own,
\* are both let through.
C37_EmptyKeyNeverRejects ==
    [][ (fetchPc = "fetched" /\ fetchPc' = "idle")
        => \A i \in 1..Len(allItems) :
              LET it == allItems[i] IN
              (/\ it.BodyHash = ""
               /\ it.CanonicalURL \notin DOMAIN cache.seenURLs
               /\ it.TitleNormal \notin DOMAIN cache.seenTitles)
              => \E n \in 1..Len(admitted') :
                    n > Len(admitted) /\ admitted'[n].url = it.CanonicalURL
      ]_vars

(***************************************************************************)
(* The RFC cache codec (pkg/skills/rfc.go): WriteRFCFile and ParseRFCFile  *)
(* over one cache path and its path.tmp.  A file is the sequence of its    *)
(* lines; a line is what it begins with (k), its text (s), its number (n)  *)
(* and, for a record "[type:id:tag] text", its id.                         *)
(***************************************************************************)
MaxNow == 5
MaxCalls == 2

Writers == {1, 2}

RfcLine(k, s, n, id) == [k |-> k, s |-> s, n |-> n, id |-> id]

\* What callers pass as newLines: records built by EncodeRecord (one line
\* each, the id in the bracket tuple), and one bracket line without an id.
NewLineInputs ==
    LET A1 == RfcLine("[", "flood", 0, "a")
        A2 == RfcLine("[", "flood, update", 0, "a")
        B1 == RfcLine("[", "strike", 0, "b")
        X  == RfcLine("[", "note", 0, "")
    IN { <<>>, <<A1>>, <<A2, B1>>, <<B1, A1>>, <<A1, X, A2>> }

\* The two callers: executeFetchTool of the news skill, executeFetch of the
\* research skill.
Callers == { [agent |-> "monitor", ttl |-> "6h"], [agent |-> "research", ttl |-> "24h"] }

\* The values ParseRFCFile is called with (20 and 15 in the source, scaled).
MaxRecordsInputs == {1, 2}

extractUUID12(line) == IF line.k = "[" THEN line.id ELSE ""

\* ParseTTL, in units of 6 hours: "<N>h" with N > 0 is N hours, anything
\* else is 24 hours.
ParseTTLMut(ttl) == 4

ParseTTL(ttl) ==
    CASE ttl = "6h" -> 1
      [] ttl = "24h" -> 4
      [] OTHER -> 4

\* One pass of the merge loops of WriteRFCFile: a line without an id is
\* skipped; an id not yet in existing is appended to order; the line
\* replaces whatever existing held for its id.
upsertMut(st, line) ==
    LET id == extractUUID12(line)
    IN IF id = "" THEN st
       ELSE [order |-> Append(st.order, id), existing |-> Put(st.existing, id, line)]

upsertKeepMut(st, line) ==
    LET id == extractUUID12(line)
    IN IF id = "" \/ id \in DOMAIN st.existing THEN st
       ELSE [order |-> Append(st.order, id), existing |-> Put(st.existing, id, line)]

upsert(st, line) ==
    LET id == extractUUID12(line)
    IN IF id = "" THEN st
       ELSE [order |-> IF id \in DOMAIN st.existing THEN st.order
                       ELSE Append(st.order, id),
             existing |-> Put(st.existing, id, line)]

RECURSIVE mergeLines(_, _)
mergeLines(st, lines) ==
    IF lines = <<>> THEN st ELSE mergeLines(upsert(st, Head(lines)), Tail(lines))

recordLines(data) == SelectSeq(data, LAMBDA l : l.k = "[")

\* The string WriteRFCFile builds from the file it read (data, empty when
\* the read failed), its arguments and time.Now().
buildContentMut(data, agent, ttl, newLines, t) ==
    LET st == mergeLines(mergeLines([order |-> <<>>, existing |-> EmptyMap],
                                    recordLines(data)), newLines)
    IN << RfcLine("AGENT", agent, 0, ""),
          RfcLine("TS", "", t, ""),
          RfcLine("TTL", ttl, 0, ""),
          RfcLine("COUNT", "", Len(newLines), ""),
          RfcLine("", "", 0, "") >>
       \o [i \in 1..Len(st.order) |-> st.existing[st.order[i]]]

buildContent(data, agent, ttl, newLines, t) ==
    LET st == mergeLines(mergeLines([order |-> <<>>, existing |-> EmptyMap],
                                    recordLines(data)), newLines)
    IN << RfcLine("AGENT", agent, 0, ""),
          RfcLine("TS", "", t, ""),
          RfcLine("TTL", ttl, 0, ""),
          RfcLine("COUNT", "", Len(st.order), ""),
          RfcLine("", "", 0, "") >>
       \o [i \in 1..Len(st.order) |-> st.existing[st.order[i]]]

IdleWriter ==
    [pc |-> "idle", agent |-> "", ttl |-> "", newLines |-> <<>>, content |-> <<>>,
     fd |-> 0, ok |-> FALSE, repeat |-> FALSE, before |-> <<>>]

IdleReader ==
    [pc |-> "idle", maxRecords |-> 0, present |-> FALSE, data |-> <<>>,
     result |-> <<>>, removed |-> FALSE, calls |-> 0]

InitRfc ==
    /\ rfcNow = 0
    /\ inodes = <<>>
    /\ rfcDir = [path |-> 0, tmp |-> 0]
    /\ wr = [w \in Writers |-> IdleWriter]
    /\ rd = IdleReader
    /\ rfcCalls = 0

\* WriteRFCFile up to the built string: os.ReadFile(path), the two merge
\* loops, the header with time.Now().  repeat and before are history: the
\* call repeats the caller's last, successful call on the file that call
\* left, and what the file held.
WriteRFCFile(w, agent, ttl, newLines) ==
    /\ wr[w].pc = "idle"
    /\ rfcCalls < MaxCalls
    /\ LET data == IF rfcDir.path = 0 THEN <<>> ELSE inodes[rfcDir.path]
       IN wr' = [wr EXCEPT ![w] =
                    [pc |-> "built", agent |-> agent, ttl |-> ttl, newLines |-> newLines,
                     content |-> buildContent(data, agent, ttl, newLines, rfcNow),
                     fd |-> 0, ok |-> FALSE,
                     repeat |-> /\ wr[w].ok
                                /\ wr[w].agent = agent /\ wr[w].ttl = ttl
                                /\ wr[w].newLines = newLines
                                /\ rfcDir.path # 0
                                /\ data = wr[w].content,
                     before |-> data]]
    /\ rfcCalls' = rfcCalls + 1
    /\ UNCHANGED <<rfcNow, inodes, rfcDir, rd>>
    /\ UNCHANGED notRfc

\* os.WriteFile(tmp, ...), its open with O_CREATE and O_TRUNC: the file
\* path.tmp names is emptied, or a new empty one is made.
OpenTmp(w) ==
    /\ wr[w].pc = "built"
    /\ IF rfcDir.tmp = 0
       THEN /\ inodes' = Append(inodes, <<>>)
            /\ rfcDir' = [rfcDir EXCEPT !.tmp = Len(inodes) + 1]
            /\ wr' = [wr EXCEPT ![w].pc = "open", ![w].fd = Len(inodes) + 1]
       ELSE /\ inodes' = [inodes EXCEPT ![rfcDir.tmp] = <<>>]
            /\ rfcDir' = rfcDir
            /\ wr' = [wr EXCEPT ![w].pc = "open", ![w].fd = rfcDir.tmp]
    /\ UNCHANGED <<rfcNow, rd, rfcCalls>>
    /\ UNCHANGED notRfc

\* os.WriteFile(tmp, ...), its write: the string goes into the opened file
\* from offset 0, over what the file holds by then.
WriteTmp(w) ==
    /\ wr[w].pc = "open"
    /\ LET old == inodes[wr[w].fd]
           new == wr[w].content
       IN inodes' = [inodes EXCEPT ![wr[w].fd] =
                        new \o SubSeq(old, Len(new) + 1, Len(old))]
    /\ wr' = [wr EXCEPT ![w].pc = "written"]
    /\ UNCHANGED <<rfcNow, rfcDir, rd, rfcCalls>>
    /\ UNCHANGED notRfc

\* os.Rename(tmp, path): the error when path.tmp names nothing; otherwise
\* path names the file path.tmp named, and the file path named is gone.
Rename(w) ==
    /\ wr[w].pc = "written"
    /\ IF rfcDir.tmp = 0
       THEN /\ wr' = [wr EXCEPT ![w].pc = "idle", ![w].ok = FALSE]
            /\ UNCHANGED <<inodes, rfcDir>>
       ELSE /\ wr' = [wr EXCEPT ![w].pc = "idle", ![w].ok = TRUE]
            /\ rfcDir' = [path |-> rfcDir.tmp, tmp |-> 0]
            /\ inodes' = IF rfcDir.path = 0 THEN inodes
                         ELSE [inodes EXCEPT ![rfcDir.path] = <<>>]
    /\ UNCHANGED <<rfcNow, rd, rfcCalls>>
    /\ UNCHANGED notRfc

\* ParseRFCFile, its os.ReadFile(path): nil, nil for a missing file.
ParseRFCFile(maxRecords) ==
    /\ rd.pc = "idle"
    /\ rd' = IF rfcDir.path = 0
             THEN [IdleReader EXCEPT !.maxRecords = maxRecords, !.calls = 1]
             ELSE [pc |-> "read", maxRecords |-> maxRecords, present |-> TRUE,
                   data |-> inodes[rfcDir.path], result |-> <<>>, removed |-> FALSE,
                   calls |-> 1]
    /\ UNCHANGED <<rfcNow, inodes, rfcDir, wr, rfcCalls>>
    /\ UNCHANGED notRfc

\* ParseRFCFile after the read: the last TS and TTL lines, the TTL check
\* with os.Remove(path), the cap.
ParseCheck ==
    /\ rd.pc = "read"
    /\ LET tsVal == SelectSeq(rd.data, LAMBDA l : l.k = "TS")
           ttlVal == SelectSeq(rd.data, LAMBDA l : l.k = "TTL")
           records == recordLines(rd.data)
           expired == /\ tsVal # <<>>
                      /\ ttlVal # <<>>
                      /\ rfcNow - tsVal[Len(tsVal)].n > ParseTTL(ttlVal[Len(ttlVal)].s)
       IN IF expired
          THEN /\ rfcDir' = [rfcDir EXCEPT !.path = 0]
               /\ inodes' = IF rfcDir.path = 0 THEN inodes
                            ELSE [inodes EXCEPT ![rfcDir.path] = <<>>]
               /\ rd' = [rd EXCEPT !.pc = "idle", !.result = <<>>, !.removed = TRUE]
          ELSE /\ UNCHANGED <<rfcDir, inodes>>
               /\ rd' = [rd EXCEPT !.pc = "idle",
                                   !.result = IF rd.maxRecords > 0
                                                 /\ Len(records) > rd.maxRecords
                                              THEN SubSeq(records, 1, rd.maxRecords)
                                              ELSE records]
    /\ UNCHANGED <<rfcNow, wr, rfcCalls>>
    /\ UNCHANGED notRfc

\* Time passes.
RfcTick ==
    /\ rfcNow < MaxNow
    /\ rfcNow' = rfcNow + 1
    /\ UNCHANGED <<inodes, rfcDir, wr, rd, rfcCalls>>
    /\ UNCHANGED notRfc

\* One caller of WriteRFCFile at a time, and a reader.
NextRfc ==
    \/ \E c \in Callers, l \in NewLineInputs : WriteRFCFile(1, c.agent, c.ttl, l)
    \/ OpenTmp(1)
    \/ WriteTmp(1)
    \/ Rename(1)
    \/ \E m \in MaxRecordsInputs : ParseRFCFile(m)
    \/ ParseCheck
    \/ RfcTick

\* Two tool-call loops of the gateway calling the news skill's fetch at the
\* same time, and a reader.
NextRfcRace ==
    \/ \E w \in Writers, l \in NewLineInputs : WriteRFCFile(w, "monitor", "6h", l)
    \/ \E w \in Writers : OpenTmp(w)
    \/ \E w \in Writers : WriteTmp(w)
    \/ \E w \in Writers : Rename(w)
    \/ \E m \in MaxRecordsInputs : ParseRFCFile(m)
    \/ ParseCheck

\* C14: a file WriteRFCFile builds holds at most one record per id; with
\* all = the records of the file it read followed by the new lines that
\* carry an id, the record of an id is the last line of all with that id,
\* and the records stand in the order in which their ids first occur in
\* all; a successful rename makes that file the cache file.
C14_NewestWinsFirstSeenOrder ==
    [][ /\ (wr[1].pc = "idle" /\ wr'[1].pc = "built")
           => LET all == recordLines(wr'[1].before)
                         \o SelectSeq(wr'[1].newLines,
                                      LAMBDA l : l.k = "[" /\ l.id # "")
                  recs == recordLines(wr'[1].content)
                  first(id) == CHOOSE k \in 1..Len(all) :
                                  /\ all[k].id = id
                                  /\ \A j \in 1..(k - 1) : all[j].id # id
              IN /\ \A i, j \in 1..Len(recs) : i # j => recs[i].id # recs[j].id
                 /\ { recs[i].id : i \in 1..Len(recs) } = { all[k].id : k \in 1..Len(all) }
                 /\ \A i \in 1..Len(recs) :
                       \E k \in 1..Len(all) :
                          /\ all[k] = recs[i]
                          /\ \A j \in (k + 1)..Len(all) : all[j].id # recs[i].id
                 /\ \A i, j \in 1..Len(recs) :
                       i < j => first(recs[i].id) < first(recs[j].id)
        /\ (wr[1].pc = "written" /\ wr'[1].pc = "idle" /\ wr'[1].ok)
           => (rfcDir'.path # 0 /\ inodes'[rfcDir'.path] = wr[1].content)
      ]_vars

\* A second call has replaced the record of an id the file already held,
\* and the file holds two records.
C14_Witness ==
    /\ wr[1].pc = "idle" /\ wr[1].ok
    /\ rfcDir.path # 0
    /\ inodes[rfcDir.path] = wr[1].content
    /\ Len(recordLines(wr[1].content)) = 2
    /\ \E i \in 1..Len(wr[1].before), j \in 1..Len(wr[1].content) :
          /\ wr[1].before[i].k = "["
          /\ wr[1].content[j].k = "["
          /\ wr[1].before[i].id = wr[1].content[j].id
          /\ wr[1].before[i].s # wr[1].content[j].s

\* C15: the cache file is header lines, among them TS, TTL and COUNT, then
\* a blank line, then record lines and nothing else, as many as COUNT says.
C15_HeaderAndCount ==
    rfcDir.path # 0
    => LET f == inodes[rfcDir.path]
       IN \E b \in 1..Len(f) :
             /\ f[b].k = ""
             /\ \A i \in 1..(b - 1) : f[i].k \notin {"", "["}
             /\ {"TS", "TTL", "COUNT"} \subseteq { f[i].k : i \in 1..(b - 1) }
             /\ \A i \in (b + 1)..Len(f) : f[i].k = "["
             /\ \A i \in 1..(b - 1) : f[i].k = "COUNT" => f[i].n = Len(f) - b

\* The cache file after two calls, with two records.
C15_Witness ==
    /\ rfcCalls = 2
    /\ wr[1].pc = "idle" /\ wr[1].ok
    /\ rfcDir.path # 0
    /\ Len(inodes[rfcDir.path]) = 7

\* C16: a read that finds now - TS > TTL in the header removes the file and
\* returns no records; a read that does not returns the record lines in
\* file order, the first maxRecords of them, and leaves the file; a read
\* of a missing file returns no records.
C16_ReadExpiresOrReturns ==
    [][ /\ (rd.pc = "read" /\ rd'.pc = "idle")
           => LET ts == rd.data[2].n
                  ttl == IF rd.data[3].s = "6h" THEN 1 ELSE 4
                  records == recordLines(rd.data)
                  n == IF Len(records) < rd.maxRecords THEN Len(records)
                       ELSE rd.maxRecords
              IN IF rfcNow - ts > ttl
                 THEN rfcDir'.path = 0 /\ rd'.result = <<>>
                 ELSE /\ rd'.result = SubSeq(records, 1, n)
                      /\ rfcDir' = rfcDir
                      /\ inodes' = inodes
        /\ (rd.pc = "idle" /\ rd' # rd /\ rfcDir.path = 0)
           => (rd'.pc = "idle" /\ rd'.result = <<>> /\ rfcDir' = rfcDir)
      ]_vars

\* A read has found the file expired and removed it.
C16_Witness ==
    /\ rd.pc = "idle"
    /\ rd.removed
    /\ rd.data[3].s = "6h"
    /\ recordLines(rd.data) # <<>>
    /\ rfcDir.path = 0

\* C38: a file WriteRFCFile builds over a file whose TTL has run out holds
\* none of the records of that file: its records are all among the new
\* lines.
C38_ExpiredNotCarried ==
    \A w \in Writers :
        (/\ wr[w].pc # "idle"
         /\ Len(wr[w].before) >= 3
         /\ wr[w].content[2].n - wr[w].before[2].n > ParseTTL(wr[w].before[3].s))
        => \A i \in 1..Len(recordLines(wr[w].content)) :
              \E j \in 1..Len(wr[w].newLines) :
                  wr[w].newLines[j] = recordLines(wr[w].content)[i]

\* C17 as stated: the file a call builds when it repeats the caller's last
\* call, on the file that call left, is that file.
C17_SameContent ==
    wr[1].repeat => wr[1].content = wr[1].before

\* C17, amended: the file a call builds when it repeats the caller's last
\* call, on the file that call left, is that file in every line but the TS
\* line, which holds the time of the repeated call.
C17_SameButTS ==
    [][ (wr[1].pc = "idle" /\ wr'[1].pc = "built" /\ wr'[1].repeat)
        => LET c == wr'[1].content
               b == wr'[1].before
           IN /\ Len(c) = Len(b)
              /\ \A i \in 1..Len(c) :
                    IF b[i].k = "TS" THEN c[i] = [b[i] EXCEPT !.n = rfcNow]
                    ELSE c[i] = b[i]
      ]_vars

\* A call with records has been repeated at a later time and has replaced
\* the file.
C17_Witness ==
    /\ wr[1].pc = "idle" /\ wr[1].ok /\ wr[1].repeat
    /\ Len(wr[1].newLines) = 3
    /\ wr[1].content # wr[1].before
    /\ rfcDir.path # 0
    /\ inodes[rfcDir.path] = wr[1].content

\* C18: the cache file is at every moment absent or the whole of what one
\* WriteRFCFile call built: its five header lines and then exactly COUNT
\* record lines.
C18_NeverPartial ==
    rfcDir.path # 0
    => LET f == inodes[rfcDir.path]
       IN /\ Len(f) >= 5
          /\ f[1].k = "AGENT" /\ f[2].k = "TS" /\ f[3].k = "TTL"
          /\ f[4].k = "COUNT" /\ f[5].k = ""
          /\ Len(f) = 5 + f[4].n
          /\ \A i \in 6..Len(f) : f[i].k = "["

(***************************************************************************)
(* The fan-out of executeFetch (monitor/skill.go:1098-1129): one goroutine *)
(* per feed in an errgroup with a limit, each under a deferred recover.    *)
(***************************************************************************)
MaxConcurrentFetch == 2

\* feedsToFetch, in order.
Feeds == {1, 2, 3}

\* What fetchFeed can do in one goroutine: return items, return an error,
\* panic (gofeed on a malformed document), or, once gCtx is cancelled,
\* return the context's error.
FetchOutcomes(cancelled) ==
    {"items", "fetch error", "panic"} \cup (IF cancelled THEN {"context canceled"} ELSE {})

\* The function given to g.Go: the deferred recover turns a panic into the
\* error the function returns; without a panic the error of fetchFeed, or
\* nil, is returned.
fetchGoroutineMut(outcome) ==
    CASE outcome = "panic" -> [err |-> "", crashed |-> TRUE]
      [] outcome = "items" -> [err |-> "", crashed |-> FALSE]
      [] OTHER -> [err |-> outcome, crashed |-> FALSE]

fetchGoroutine(outcome) ==
    CASE outcome = "panic" -> [err |-> "monitor fetch panic", crashed |-> FALSE]
      [] outcome = "items" -> [err |-> "", crashed |-> FALSE]
      [] OTHER -> [err |-> outcome, crashed |-> FALSE]

InitFan ==
    /\ fanPc = "idle"
    /\ feedSt = [f \in Feeds |-> [st |-> "pending", err |-> ""]]
    /\ gErr = <<>>
    /\ gCancelled = FALSE
    /\ fanItems = {}
    /\ fanResult = [items |-> {}, logged |-> <<>>]
    /\ fanProc = "running"

\* executeFetch up to errgroup.WithContext.
FanStart ==
    /\ fanProc = "running"
    /\ fanPc \in {"idle", "returned"}
    /\ fanPc' = "fanout"
    /\ feedSt' = [f \in Feeds |-> [st |-> "pending", err |-> ""]]
    /\ gErr' = <<>>
    /\ gCancelled' = FALSE
    /\ fanItems' = {}
    /\ UNCHANGED <<fanResult, fanProc>>
    /\ UNCHANGED notFan

\* g.Go for the next feed: it waits while MaxConcurrentFetch goroutines run.
Go(f) ==
    /\ fanProc = "running"
    /\ fanPc = "fanout"
    /\ feedSt[f].st = "pending"
    /\ \A g \in Feeds : g < f => feedSt[g].st # "pending"
    /\ Cardinality({ g \in Feeds : feedSt[g].st = "running" }) < MaxConcurrentFetch
    /\ feedSt' = [feedSt EXCEPT ![f].st = "running"]
    /\ UNCHANGED <<fanPc, gErr, gCancelled, fanItems, fanResult, fanProc>>
    /\ UNCHANGED notFan

\* The goroutine of one feed ends: its items are appended, or the group
\* keeps its error if it is the first and cancels gCtx; a panic that
\* nothing recovers ends the process.
FeedReturn(f, outcome) ==
    /\ fanProc = "running"
    /\ feedSt[f].st = "running"
    /\ outcome \in FetchOutcomes(gCancelled)
    /\ LET r == fetchGoroutine(outcome)
       IN IF r.crashed
          THEN /\ fanProc' = "crashed"
               /\ UNCHANGED <<feedSt, gErr, gCancelled, fanItems>>
          ELSE /\ fanProc' = fanProc
               /\ feedSt' = [feedSt EXCEPT ![f] = [st |-> "done", err |-> r.err]]
               /\ fanItems' = IF outcome = "items" THEN fanItems \cup {f} ELSE fanItems
               /\ gErr' = IF r.err # "" /\ gErr = <<>> THEN <<f, r.err>> ELSE gErr
               /\ gCancelled' = (gCancelled \/ r.err # "")
    /\ UNCHANGED <<fanPc, fanResult>>
    /\ UNCHANGED notFan

\* g.Wait() returns the first error, which is logged; executeFetch goes on
\* with the items it has and returns its result.
FanReturn ==
    /\ fanProc = "running"
    /\ fanPc = "fanout"
    /\ \A f \in Feeds : feedSt[f].st = "done"
    /\ fanPc' = "returned"
    /\ fanResult' = [items |-> fanItems, logged |-> gErr]
    /\ UNCHANGED <<feedSt, gErr, gCancelled, fanItems, fanProc>>
    /\ UNCHANGED notFan

NextFan ==
    \/ FanStart
    \/ \E f \in Feeds : Go(f)
    \/ \E f \in Feeds, outcome \in FetchOutcomes(TRUE) : FeedReturn(f, outcome)
    \/ FanReturn

\* C21: the goroutine of a feed that panics ends with an error of its own
\* and changes nothing else (no items, no other goroutine's result); the
\* process keeps running, the fan-out can always go on, and the command
\* returns its result with the items of the feeds that delivered.
C21_PanicContained ==
    [][ /\ fanProc' = "running"
        /\ \A f \in Feeds :
              (feedSt[f].st = "running" /\ feedSt'[f].st = "done"
                 /\ feedSt'[f].err = "monitor fetch panic")
              => /\ fanItems' = fanItems
                 /\ \A g \in Feeds \ {f} : feedSt'[g] = feedSt[g]
        /\ (fanPc' = "fanout")
           => \/ \E f \in Feeds : feedSt'[f].st = "running"
              \/ \E f \in Feeds : feedSt'[f].st = "pending"
                                  /\ \A g \in Feeds : g < f => feedSt'[g].st # "pending"
              \/ \A f \in Feeds : feedSt'[f].st = "done"
        /\ (fanPc = "fanout" /\ fanPc' = "returned")
           => fanResult'.items = { f \in Feeds : feedSt[f].st = "done" /\ feedSt[f].err = "" }
      ]_vars

\* The command has returned a result with the items of a feed, after the
\* goroutine of another feed had panicked.
C21_Witness ==
    /\ fanPc = "returned"
    /\ fanProc = "running"
    /\ \E f \in Feeds : feedSt[f].err = "monitor fetch panic"
    /\ fanResult.items # {}

(***************************************************************************)
(* The CalDAV calls of the task and deadline skills (atc/ics_sync.go,      *)
(* architect/skill.go) against one remote item.  An item is its properties *)
(* by name, "" for a property it does not have.                            *)
(***************************************************************************)
Keys == {"UID", "SUMMARY", "STATUS", "DUE", "PRIORITY", "COMPLETED"}

NoItem == [k \in Keys |-> ""]

\* The items other clients put at the href.
RemoteTodos ==
    { [NoItem EXCEPT !["UID"] = "u1", !["SUMMARY"] = "pay rent",
                     !["STATUS"] = "NEEDS-ACTION", !["DUE"] = "20260301T100000Z",
                     !["PRIORITY"] = "5"],
      [NoItem EXCEPT !["UID"] = "u2", !["SUMMARY"] = "file taxes",
                     !["STATUS"] = "COMPLETED", !["COMPLETED"] = "20260220T090000Z"] }

\* What the caller of merge_task can provide ("" and 0: not provided).
MergeUpdates ==
    [summary : {"", "pay rent today"}, due : {"", "2026-03-02T10:00:00Z"}, priority : {0, 1}]

\* persistence_test.go:118-125 on the instants of the callers.
FormatRFC3339ToICS(ts) ==
    CASE ts = "2026-03-02T10:00:00Z" -> "20260302T100000Z"
      [] OTHER -> ts

\* getTaskFromCalDAV: the properties it keeps of the body it was sent,
\* whatever the status of the answer.
getTaskFromCalDAV(body) ==
    [k \in Keys |-> IF k \in {"SUMMARY", "UID", "STATUS", "PRIORITY", "DUE"} THEN body[k] ELSE ""]

\* mergeTaskOnCalDAV: the VTODO it puts, from the fields it fetched.
icsBody(fields, updates) ==
    [k \in Keys |->
        CASE k = "SUMMARY" -> IF updates.summary # "" THEN updates.summary ELSE fields[k]
          [] k = "DUE" -> IF updates.due # "" THEN FormatRFC3339ToICS(updates.due)
                          ELSE fields[k]
          [] k = "PRIORITY" -> IF updates.priority > 0 THEN ToString(updates.priority)
                               ELSE fields[k]
          [] k \in {"UID", "STATUS"} -> fields[k]
          [] OTHER -> ""]

\* What the server can answer: the status (0: no answer, client.Do fails),
\* and whether it did what was asked.
ServerAnswers(method, exists) ==
    CASE method = "GET" -> IF exists THEN {0, 200, 500} ELSE {0, 404, 500}
      [] method = "PUT" -> IF exists THEN {204, 200, 403, 500} ELSE {201, 403, 500}
      [] method = "DELETE" -> IF exists THEN {204, 200, 403, 500} ELSE {404, 500}
      [] OTHER -> {207, 401, 500}

\* What each call reports for a status: propfindHrefs and
\* listNextcloudTasks (no look at the status), executeCreateTask's PUT,
\* deleteTaskFromCalDAV, mergeTaskOnCalDAV's PUT.
davReport(op, status) ==
    CASE op = "PROPFIND" -> [isErr |-> FALSE, code |-> 0]
      [] op = "PUT" -> [isErr |-> status \notin {201, 204, 200},
                        code |-> IF status \in {201, 204, 200} THEN 0 ELSE status]
      [] op = "DELETE" -> [isErr |-> status \notin {204, 200},
                           code |-> IF status \in {204, 200} THEN 0 ELSE status]
      [] op = "MERGE PUT" -> [isErr |-> status \notin {201, 204},
                              code |-> IF status \in {201, 204} THEN 0 ELSE status]
      [] OTHER -> [isErr |-> FALSE, code |-> 0]

IdleMerge ==
    [pc |-> "idle", updates |-> [summary |-> "", due |-> "", priority |-> 0],
     getStatus |-> 0, fetched |-> NoItem, fields |-> NoItem]

InitDav ==
    /\ davItem = NoItem
    /\ davLog = <<>>
    /\ merge = IdleMerge
    /\ davLast = [op |-> "", status |-> 0, isErr |-> FALSE, code |-> 0]

\* Another client of the server puts an item at the href.
RemoteEdit(item) ==
    /\ merge.pc = "idle"
    /\ davItem' = item
    /\ UNCHANGED <<davLog, merge, davLast>>
    /\ UNCHANGED notDav

\* propfindHrefs, executeCreateTask's PUT of a new item, deleteTaskFromCalDAV.
DavCall(op, status) ==
    /\ merge.pc = "idle"
    /\ status \in ServerAnswers(op, davItem # NoItem)
    /\ davLast' = [op |-> op, status |-> status,
                   isErr |-> davReport(op, status).isErr,
                   code |-> davReport(op, status).code]
    /\ davItem' = CASE op = "DELETE" /\ status \in {200, 204} -> NoItem
                    [] op = "PUT" /\ status \in {200, 201, 204} ->
                          [NoItem EXCEPT !["UID"] = "u3", !["SUMMARY"] = "new",
                                         !["STATUS"] = "NEEDS-ACTION"]
                    [] OTHER -> davItem
    /\ UNCHANGED <<davLog, merge>>
    /\ UNCHANGED notDav

\* mergeTaskOnCalDAV, its getTaskFromCalDAV: the GET and the parse; the
\* return with the error when the GET got no answer.
MergeGet(updates, status) ==
    /\ merge.pc = "idle"
    /\ status \in ServerAnswers("GET", davItem # NoItem)
    /\ LET body == IF status = 200 THEN davItem ELSE NoItem
       IN merge' = [pc |-> IF status = 0 THEN "idle" ELSE "got",
                    updates |-> updates, getStatus |-> status,
                    fetched |-> body, fields |-> getTaskFromCalDAV(body)]
    /\ davLog' = << [method |-> "GET", href |-> "/tasks/1.ics", body |-> NoItem] >>
    /\ UNCHANGED <<davItem, davLast>>
    /\ UNCHANGED notDav

\* mergeTaskOnCalDAV after the fetch: the overlay, the PUT, the report.
MergePut(status) ==
    /\ merge.pc = "got"
    /\ status \in ServerAnswers("PUT", davItem # NoItem)
    /\ LET body == icsBody(merge.fields, merge.updates)
       IN /\ davLog' = Append(davLog, [method |-> "PUT", href |-> "/tasks/1.ics",
                                       body |-> body])
          /\ davItem' = IF status \in {200, 201, 204} THEN body ELSE davItem
    /\ davLast' = [op |-> "MERGE PUT", status |-> status,
                   isErr |-> davReport("MERGE PUT", status).isErr,
                   code |-> davReport("MERGE PUT", status).code]
    /\ merge' = [merge EXCEPT !.pc = "idle"]
    /\ UNCHANGED notDav

NextDav ==
    \/ \E item \in RemoteTodos : RemoteEdit(item)
    \/ \E op \in {"PROPFIND", "PUT", "DELETE"}, status \in {200, 201, 204, 207, 401, 403, 404, 500} :
          DavCall(op, status)
    \/ \E updates \in MergeUpdates, status \in {0, 200, 404, 500} : MergeGet(updates, status)
    \/ \E status \in {200, 201, 204, 403, 500} : MergePut(status)

\* C22: merge_task makes a GET and then one PUT to the same href; the item
\* it puts has the UID of the item it fetched, the value the caller gave
\* for every property the caller provided, and the fetched item's value
\* for every other property.
C22_MergeKeepsOtherFields ==
    [][ (merge.pc = "got" /\ merge'.pc = "idle" /\ merge.getStatus = 200)
        => /\ Len(davLog') = 2
           /\ davLog'[1].method = "GET" /\ davLog'[2].method = "PUT"
           /\ davLog'[1].href = davLog'[2].href
           /\ LET put == davLog'[2].body
                  u == merge.updates
              IN /\ put["UID"] = merge.fetched["UID"]
                 /\ \A k \in Keys :
                       CASE k = "SUMMARY" /\ u.summary # "" -> put[k] = u.summary
                         [] k = "DUE" /\ u.due # "" -> put[k] = "20260302T100000Z"
                         [] k = "PRIORITY" /\ u.priority > 0 -> put[k] = "1"
                         [] OTHER -> put[k] = merge.fetched[k]
      ]_vars

\* C23: a call reports an error exactly when the status is outside its
\* success set (PROPFIND: 2xx; PUT: 201, 204; DELETE: 200, 204), and the
\* error carries the status.
C23_StatusDecidesError ==
    davLast.op # ""
    => LET ok == CASE davLast.op = "PROPFIND" -> davLast.status \in 200..299
                   [] davLast.op = "DELETE" -> davLast.status \in {200, 204}
                   [] OTHER -> davLast.status \in {201, 204}
       IN /\ davLast.isErr <=> ~ok
          /\ davLast.isErr => davLast.code = davLast.status

\* C39: merge_task puts nothing unless its GET was answered with success
\* and with an item that has a UID.
C39_NoPutAfterFailedGet ==
    [][ (Len(davLog') = 2 /\ davLog' # davLog /\ davLog'[2].method = "PUT")
        => /\ merge.getStatus = 200
           /\ merge.fields["UID"] # ""
      ]_vars

(***************************************************************************)
(* The workspaces of the skills (atc/skill.go, coach/skill.go,             *)
(* monitor/skill.go) and the task mirror memory/tasks.xml of the task      *)
(* skill.  A file is "absent", "initial" (as SetWorkspace wrote it) or     *)
(* "changed" (written by anybody since).                                   *)
(***************************************************************************)
MaxSetCalls == 2

Skills == {"atc", "coach", "monitor"}

\* The files SetWorkspace looks after, by skill.
SkillFiles(sk) ==
    CASE sk = "atc" -> {"IDENTITY.md", "HEARTBEAT.md", "memory/tasks.xml", "memory/events.xml"}
      [] sk = "coach" -> {"IDENTITY.md", "HEARTBEAT.md", "memory/momentum.db"}
      [] OTHER -> {"IDENTITY.md", "HEARTBEAT.md"}

Uids == {"t1", "t2"}

NoTodo == [status |-> "", categories |-> ""]

\* What update_task is called with, and strings.ToUpper of it.
StatusInputs == {"needs-action", "in-process", "Completed", "CANCELLED"}

ToUpper(s) ==
    CASE s = "needs-action" -> "NEEDS-ACTION"
      [] s = "in-process" -> "IN-PROCESS"
      [] s = "Completed" -> "COMPLETED"
      [] OTHER -> s

\* initWorkspace and initDB on one file: os.Stat, and the write (the
\* CREATE TABLE IF NOT EXISTS of a database just made) only when the file
\* is not there.
initWorkspaceMut(content) == "initial"

initWorkspace(content) == IF content = "absent" THEN "initial" ELSE content

InitWs ==
    /\ wsFiles = [sk \in Skills |-> [f \in SkillFiles(sk) |-> "absent"]]
    /\ wsCalls = [sk \in Skills |-> 0]
    /\ wsStat = [sk \in Skills |-> [f \in SkillFiles(sk) |-> "absent"]]
    /\ todos = [u \in Uids |-> NoTodo]
    /\ atcErr = ""

\* SetWorkspace(ws) of one skill, with the path it always gets.
SetWorkspace(sk) ==
    /\ wsCalls[sk] < MaxSetCalls
    /\ wsCalls' = [wsCalls EXCEPT ![sk] = @ + 1]
    /\ wsFiles' = [wsFiles EXCEPT ![sk] = [f \in SkillFiles(sk) |-> initWorkspace(@[f])]]
    /\ wsStat' = [wsStat EXCEPT ![sk] = wsFiles[sk]]
    /\ UNCHANGED <<todos, atcErr>>
    /\ UNCHANGED notWs

\* The user, or a command of the skill, writes one of the files.
UserEdit(sk, f) ==
    /\ f \in SkillFiles(sk)
    /\ wsFiles[sk][f] # "absent"
    /\ <<sk, f>> # <<"atc", "memory/tasks.xml">>
    /\ wsFiles' = [wsFiles EXCEPT ![sk][f] = "changed"]
    /\ UNCHANGED <<wsCalls, wsStat, todos, atcErr>>
    /\ UNCHANGED notWs

\* A VTODO put into tasks.xml (the file is edited by hand or by the agent).
AddTodo(u, cat) ==
    /\ wsFiles["atc"]["memory/tasks.xml"] # "absent"
    /\ todos[u] = NoTodo
    /\ todos' = [todos EXCEPT ![u] = [status |-> "NEEDS-ACTION", categories |-> cat]]
    /\ wsFiles' = [wsFiles EXCEPT !["atc"]["memory/tasks.xml"] = "changed"]
    /\ UNCHANGED <<wsCalls, wsStat, atcErr>>
    /\ UNCHANGED notWs

\* executeUpdateTask(task_uid, status).
executeUpdateTask(uid, newStatus) ==
    /\ IF wsFiles["atc"]["memory/tasks.xml"] = "absent"
       THEN /\ atcErr' = "tasks.xml file not found."
            /\ UNCHANGED <<todos, wsFiles>>
       ELSE IF todos[uid] = NoTodo
       THEN /\ atcErr' = "Task UID not found in XML file."
            /\ UNCHANGED <<todos, wsFiles>>
       ELSE /\ todos' = [todos EXCEPT ![uid].status = ToUpper(newStatus)]
            /\ wsFiles' = [wsFiles EXCEPT !["atc"]["memory/tasks.xml"] = "changed"]
            /\ atcErr' = ""
    /\ UNCHANGED <<wsCalls, wsStat>>
    /\ UNCHANGED notWs

\* The category of a rolled task (categories are "today", "work" or
\* "tomorrow": strings.Replace of "today" by "tomorrow").
rollCategory(t) ==
    IF t.categories = "today" /\ t.status \notin {"COMPLETED", "CANCELLED"}
    THEN "tomorrow" ELSE t.categories

\* executeRollOverTasks.
executeRollOverTasks ==
    /\ IF wsFiles["atc"]["memory/tasks.xml"] = "absent"
       THEN /\ atcErr' = "tasks.xml file not found."
            /\ UNCHANGED <<todos, wsFiles>>
       ELSE /\ todos' = [u \in Uids |-> [todos[u] EXCEPT !.categories = rollCategory(todos[u])]]
            /\ wsFiles' = IF todos' # todos
                          THEN [wsFiles EXCEPT !["atc"]["memory/tasks.xml"] = "changed"]
                          ELSE wsFiles
            /\ atcErr' = ""
    /\ UNCHANGED <<wsCalls, wsStat>>
    /\ UNCHANGED notWs

NextWs ==
    \/ \E sk \in Skills : SetWorkspace(sk)
    \/ \E sk \in Skills, f \in {"IDENTITY.md", "HEARTBEAT.md", "memory/tasks.xml",
                              "memory/events.xml", "memory/momentum.db"} : UserEdit(sk, f)

NextAtc ==
    \/ SetWorkspace("atc")
    \/ \E u \in Uids, cat \in {"today", "work"} : AddTodo(u, cat)
    \/ \E u \in Uids, st \in StatusInputs : executeUpdateTask(u, st)
    \/ executeRollOverTasks

\* The order of the statuses of a VTODO.
StatusRank(st) ==
    CASE st = "NEEDS-ACTION" -> 1
      [] st = "IN-PROCESS" -> 2
      [] OTHER -> 3

\* C24: the status of a task of tasks.xml only moves forward along
\* NEEDS-ACTION, IN-PROCESS, then COMPLETED or CANCELLED, and a COMPLETED or
\* CANCELLED task keeps its status through every update_task and
\* roll_over_tasks.
C24_StatusOnlyForward ==
    [][\A u \in Uids :
          (todos[u] # NoTodo /\ todos'[u].status # todos[u].status)
              => /\ todos[u].status \notin {"COMPLETED", "CANCELLED"}
                 /\ StatusRank(todos'[u].status) > StatusRank(todos[u].status)]_vars

\* C27: a SetWorkspace of a skill that was already called leaves every file
\* of the workspace as it is, the files changed since the first call too.
C27_SecondCallNoOp ==
    [][\A sk \in Skills :
          (wsCalls[sk] >= 1 /\ wsCalls'[sk] = wsCalls[sk] + 1) => wsFiles' = wsFiles]_vars

C27_Witness ==
    /\ wsCalls["atc"] = 2 /\ wsCalls["coach"] = 2
    /\ wsStat["atc"]["memory/events.xml"] = "changed"
    /\ wsFiles["atc"]["memory/events.xml"] = "changed"
    /\ wsStat["atc"]["HEARTBEAT.md"] = "changed"
    /\ wsFiles["atc"]["HEARTBEAT.md"] = "changed"
    /\ wsStat["coach"]["memory/momentum.db"] = "changed"
    /\ wsFiles["coach"]["memory/momentum.db"] = "changed"

(***************************************************************************)
(* The habit skill's check_habits (coach: executeCheckHabits and           *)
(* updateStreaks) over the streaks table of memory/momentum.db.  Days are  *)
(* numbered; the date of a timestamp is its day, 0 - 1 for none.           *)
(***************************************************************************)
MaxDay == 3

Habits == {"IELTS", "Exercise"}

NoDate == 0 - 1

NoRow == [exists |-> FALSE, current_streak |-> 0, last_completed_date |-> NoDate]

\* The habit tasks the server can hold: the summary, the status, the
\* percentage, and the days of COMPLETED and LAST-MODIFIED.
HabitTasks(summary, today) ==
    [summary : {summary},
     status : {"NEEDS-ACTION", "COMPLETED"},
     pct : {"", "100"},
     completed : {NoDate, today},
     lastModified : {NoDate, today - 1}]

HabitOf(summary) == IF summary = "ielts practice" THEN "IELTS" ELSE "Exercise"

\* executeCheckHabits: whether one task counts as completed today.
completedToday(t, today) ==
    /\ t.status = "COMPLETED" \/ t.pct = "100"
    /\ \/ t.completed = today
       \/ t.lastModified = today
       \/ t.completed = NoDate /\ t.lastModified = NoDate

\* executeCheckHabits: the habitCompleted map of the tasks fetched.
habitCompleted(fetched, today) ==
    [h \in Habits |-> \E t \in fetched : HabitOf(t.summary) = h /\ completedToday(t, today)]

\* updateStreaks on the row of one habit.
updateStreak(row, didComplete, today) ==
    IF ~row.exists
    THEN IF didComplete
         THEN [exists |-> TRUE, current_streak |-> 1, last_completed_date |-> today]
         ELSE [exists |-> TRUE, current_streak |-> 0, last_completed_date |-> NoDate]
    ELSE IF didComplete
    THEN IF row.last_completed_date = today THEN row
         ELSE IF row.last_completed_date = today - 1
         THEN [row EXCEPT !.current_streak = @ + 1, !.last_completed_date = today]
         ELSE [row EXCEPT !.current_streak = 1, !.last_completed_date = today]
    ELSE IF row.last_completed_date \in {today, today - 1} THEN row
         ELSE IF row.current_streak > 0 THEN [row EXCEPT !.current_streak = 0]
         ELSE row

InitCoach ==
    /\ streaks = [h \in Habits |-> NoRow]
    /\ coachDay = 0
    /\ coachLast = [seq |-> 0, completed |-> [h \in Habits |-> FALSE]]

\* A check_habits call with the database open, over the tasks on the server.
executeCheckHabits(fetched) ==
    /\ wsCalls["coach"] > 0
    /\ LET completed == habitCompleted(fetched, coachDay) IN
       /\ streaks' = [h \in Habits |-> updateStreak(streaks[h], completed[h], coachDay)]
       /\ coachLast' = [seq |-> 1 - coachLast.seq, completed |-> completed]
    /\ UNCHANGED coachDay
    /\ UNCHANGED notCoach

\* Midnight.
NextDay ==
    /\ coachDay < MaxDay
    /\ coachDay' = coachDay + 1
    /\ UNCHANGED <<streaks, coachLast>>
    /\ UNCHANGED notCoach

NextCoach ==
    \/ SetWorkspace("coach")
    \/ \E t1 \in HabitTasks("ielts practice", coachDay),
          t2 \in HabitTasks("morning exercise", coachDay) : executeCheckHabits({t1, t2})
    \/ NextDay

\* C25: a check_habits run leaves every streak row in one of three ways:
\* streak + 1 when the habit was completed today and last completed
\* yesterday, streak = 1 when it was completed today after a gap, and the row
\* as it was in every other case.
C25_ExtendRestartIdle ==
    [][coachLast'.seq # coachLast.seq =>
          \A h \in Habits :
              LET row == streaks[h]
                  done == coachLast'.completed[h]
              IN  row.exists =>
                     IF done /\ row.last_completed_date = coachDay - 1
                     THEN streaks'[h] = [row EXCEPT !.current_streak = @ + 1,
                                                    !.last_completed_date = coachDay]
                     ELSE IF done /\ row.last_completed_date < coachDay - 1
                     THEN streaks'[h] = [row EXCEPT !.current_streak = 1,
                                                    !.last_completed_date = coachDay]
                     ELSE streaks'[h] = row]_vars

(***************************************************************************)
(* urgent_deadlines of the chief skill (executeUrgentDeadlines) over the   *)
(* lines of memory/deadlines-today.md.  The clock and the instants count   *)
(* hours.  A line is whether it starts with "#" and its pieces in order: a *)
(* piece is an ISO instant YYYY-MM-DDTHH:MM or other text, with or without *)
(* the characters "20" in it.                                              *)
(***************************************************************************)
MaxHour == 2

MaxLines == 2

Instants == 0..(MaxHour + 2)

Text(has20) == [kind |-> "text", has20 |-> has20, at |-> 0]

Instant(t) == [kind |-> "instant", has20 |-> TRUE, at |-> t]

\* "Pay rent: DUE TODAY <instant>", "[task_id: 20ab] Pay rent: DUE TODAY
\* <instant>", "# next sync <instant>" and "nothing due".
DeadlineLines ==
    {[hash |-> FALSE, pieces |-> <<Text(FALSE), Instant(t)>>] : t \in Instants}
        \cup {[hash |-> FALSE, pieces |-> <<Text(TRUE), Instant(t)>>] : t \in Instants}
        \cup {[hash |-> TRUE, pieces |-> <<Text(FALSE), Instant(t)>>] : t \in Instants}
        \cup {[hash |-> FALSE, pieces |-> <<Text(FALSE)>>]}

\* strings.Index(line, "20"), sub[:16] and time.ParseInLocation: the instant
\* at the first "20" of the line, 0 - 1 when there is no "20" or no instant
\* starts there.
candidate(line) ==
    LET with20 == {i \in 1..Len(line.pieces) : line.pieces[i].has20} IN
    IF with20 = {} THEN 0 - 1
    ELSE LET first == CHOOSE i \in with20 : \A j \in with20 : i <= j IN
         IF line.pieces[first].kind = "instant" THEN line.pieces[first].at ELSE 0 - 1

\* The lines executeUrgentDeadlines lists as urgent.
urgentLines(content, hour) ==
    {line \in content : /\ ~line.hash
                        /\ candidate(line) # 0 - 1
                        /\ candidate(line) - hour >= 0 /\ candidate(line) - hour < 2}

InitChief ==
    /\ deadlinesToday = {}
    /\ chiefNow = 0
    /\ chiefOut = ""

\* sync_deadlines, or the user, writes the dashboard.
WriteDeadlines(content) ==
    /\ content # deadlinesToday
    /\ deadlinesToday' = content
    /\ chiefOut' = ""
    /\ UNCHANGED chiefNow
    /\ UNCHANGED notChief

ChiefTick ==
    /\ chiefNow < MaxHour
    /\ chiefNow' = chiefNow + 1
    /\ chiefOut' = ""
    /\ UNCHANGED deadlinesToday
    /\ UNCHANGED notChief

\* executeUrgentDeadlines.
executeUrgentDeadlines ==
    /\ chiefOut' = IF deadlinesToday = {} THEN "silent: no deadlines file"
                   ELSE IF urgentLines(deadlinesToday, chiefNow) = {}
                   THEN "silent: no urgent deadlines"
                   ELSE "alert"
    /\ UNCHANGED <<deadlinesToday, chiefNow>>
    /\ UNCHANGED notChief

NextChief ==
    \/ \E content \in {c \in SUBSET DeadlineLines : Cardinality(c) <= MaxLines} :
          WriteDeadlines(content)
    \/ ChiefTick
    \/ executeUrgentDeadlines

\* The instants written in the dashboard.
InstantsIn(content) ==
    {line.pieces[i].at : <<line, i>> \in
        {<<l, j>> \in content \X (1..2) : j <= Len(l.pieces) /\ l.pieces[j].kind = "instant"}}

\* C26: urgent_deadlines answers with an alert exactly when the dashboard
\* has an ISO instant from now to two hours from now, and with a silent OK
\* in every other case.
C26_AlertIffImminent ==
    chiefOut # "" =>
        /\ chiefOut = "alert" <=> \E t \in InstantsIn(deadlinesToday) :
                                      chiefNow <= t /\ t <= chiefNow + 2
        /\ chiefOut # "alert" => chiefOut \in {"silent: no deadlines file",
                                               "silent: no urgent deadlines"}

(***************************************************************************)
(* The canonical URL of the cache (rfc.go: NormalizeURL, UUID12) and of    *)
(* the news ingester (monitor/skill.go: canonicalizeURL).  A URL is what   *)
(* url.Parse makes of it: the part before the query, the query parameters  *)
(* in the order written, and the fragment; bad is a string url.Parse       *)
(* rejects.                                                                *)
(***************************************************************************)
MaxParams == 2

TenParams ==
    {"utm_source", "utm_medium", "utm_campaign", "utm_content", "utm_term",
     "ref", "context", "source", "fbclid", "gclid"}

\* rfc.go:23: the keys NormalizeURL deletes.
trackingKeys ==
    {"utm_source", "utm_medium", "utm_campaign", "utm_content", "utm_term",
     "ref", "context", "source"}

\* The parameter names of the model, in the order of sort.Strings.
SortedKeys ==
    <<"context", "fbclid", "gclid", "id", "q", "ref", "source", "utm_campaign",
      "utm_content", "utm_medium", "utm_source", "utm_term">>

Param(k, v) == [k |-> k, v |-> v]

UrlParams ==
    {Param(k, "x") : k \in {"context", "fbclid", "id", "ref", "utm_source"}}
        \cup {Param("ref", "y")}

URL(base, query, fragment, bad) ==
    [base |-> base, query |-> query, fragment |-> fragment, bad |-> bad]

UrlInputs ==
    {URL("https://a/1", query, fragment, FALSE) :
        query \in UNION {[1..n -> UrlParams] : n \in 0..MaxParams},
        fragment \in {"", "top", "s1"}}
        \cup {URL("", <<>>, "", FALSE), URL("%zz", <<>>, "", TRUE)}

\* url.Values.Del: every value of the key goes.
DelMut(query, key) ==
    LET first == {i \in 1..Len(query) : query[i].k = key} IN
    IF first = {} THEN query
    ELSE LET i == CHOOSE j \in first : \A m \in first : j <= m IN
         SubSeq(query, 1, i - 1) \o SubSeq(query, i + 1, Len(query))

Del(query, key) == SelectSeq(query, LAMBDA p : p.k # key)

RECURSIVE DelAll(_, _)
DelAll(query, keys) ==
    IF keys = {} THEN query
    ELSE LET key == CHOOSE k \in keys : TRUE IN DelAll(Del(query, key), keys \ {key})

\* url.Values.Encode: the keys sorted, the values of a key in their order.
RECURSIVE Encode(_, _)
Encode(query, i) ==
    IF i > Len(SortedKeys) THEN <<>>
    ELSE SelectSeq(query, LAMBDA p : p.k = SortedKeys[i]) \o Encode(query, i + 1)

\* The body NormalizeURL and canonicalizeURL share: url.Parse, q.Del of the
\* keys, q.Encode, the fragment cleared, String.
stripParams(u, keys) ==
    IF u.bad THEN u
    ELSE [u EXCEPT !.query = Encode(DelAll(u.query, keys), 1), !.fragment = ""]

NormalizeURL(u) == stripParams(u, trackingKeys)

\* monitor/skill.go:1412-1450, on a parsed URL.
canonicalizeParsed(u) == stripParams(u, TrackingParams)

\* The first 12 hex digits of the SHA-256 of the normalized URL.
UUID12(u) == <<"sha256", NormalizeURL(u)>>

urlResult(u) ==
    [normalized |-> NormalizeURL(u), canonical |-> canonicalizeParsed(u), id |-> UUID12(u)]

InitUrl ==
    /\ rawURL = URL("", <<>>, "", FALSE)
    /\ urlOut = urlResult(rawURL)

\* A URL from a feed is normalized, canonicalized and hashed.
NormalizeNew(u) ==
    /\ rawURL' = u
    /\ urlOut' = urlResult(u)
    /\ UNCHANGED notUrl

\* The normalized URL of a record is normalized and hashed again.
NormalizeAgain ==
    /\ rawURL' = urlOut.normalized
    /\ urlOut' = urlResult(urlOut.normalized)
    /\ UNCHANGED notUrl

NextUrl ==
    \/ \E u \in UrlInputs : NormalizeNew(u)
    \/ NormalizeAgain

\* The values of one key, in order.
ValuesOf(query, key) == SelectSeq(query, LAMBDA p : p.k = key)

\* out is u without the ten parameters and without the fragment, every
\* other parameter kept.
RemovesExactlyTen(u, out) ==
    /\ out.base = u.base
    /\ out.fragment = ""
    /\ \A i \in 1..Len(SortedKeys) :
          ValuesOf(out.query, SortedKeys[i]) =
              IF SortedKeys[i] \in TenParams THEN <<>> ELSE ValuesOf(u.query, SortedKeys[i])

\* C28: the canonical URL is the URL without the ten parameters
\* utm_source, utm_medium, utm_campaign, utm_content, utm_term, ref, context,
\* source, fbclid and gclid and without the fragment, and with every other
\* query parameter.
C28_RemovesExactlyTen ==
    ~rawURL.bad =>
        /\ RemovesExactlyTen(rawURL, urlOut.normalized)
        /\ RemovesExactlyTen(rawURL, urlOut.canonical)

\* C29: the id of a URL is the id of its normalized URL, and normalizing a
\* normalized URL changes nothing.
C29_IdOfCanonicalAndIdempotent ==
    /\ UUID12(urlOut.normalized) = urlOut.id
    /\ NormalizeURL(urlOut.normalized) = urlOut.normalized

C29_Witness ==
    /\ rawURL = URL("https://a/1", <<Param("ref", "y"), Param("id", "x")>>, "top", FALSE)
    /\ urlOut.normalized = URL("https://a/1", <<Param("id", "x")>>, "", FALSE)
    /\ urlOut.id = <<"sha256", urlOut.normalized>>

(***************************************************************************)
(* The manager's lock (manager.go: sm.mu, a sync.RWMutex) and the          *)
(* statements of Spawn, runTask and GetTask that take it or touch a row of *)
(* the task table, one statement a step.                                   *)
(***************************************************************************)
NoRowYet == [Status |-> "", Result |-> "", Iterations |-> 0]

InitMu ==
    /\ smMu = [w |-> 0, r |-> {}]
    /\ rows = [i \in 1..MaxTasks |-> NoRowYet]
    /\ runPc = [i \in 1..MaxTasks |-> "none"]
    /\ runOut = [i \in 1..MaxTasks |-> LoopCancelled]
    /\ getPc = "idle"
    /\ getSeen = NoRowYet
    /\ rowWrite = [line |-> "", locked |-> TRUE, readers |-> {}]

\* manager.go:111-123: Spawn takes the lock, puts the row in the table,
\* releases the lock and starts the goroutine.
SpawnLocked(i) ==
    /\ runPc[i] = "none"
    /\ \A j \in 1..(i - 1) : runPc[j] # "none"
    /\ smMu = [w |-> 0, r |-> {}]
    /\ rows' = [rows EXCEPT ![i] = [NoRowYet EXCEPT !.Status = "running"]]
    /\ runPc' = [runPc EXCEPT ![i] = "136"]
    /\ UNCHANGED <<smMu, runOut, getPc, getSeen>>
    /\ rowWrite' = [line |-> "121", locked |-> TRUE, readers |-> smMu.r]
    /\ UNCHANGED notMu

\* manager.go:136: task.Status = "running", first statement of runTask.
RunTaskStatus(i) ==
    /\ runPc[i] = "136"
    /\ rows' = [rows EXCEPT ![i].Status = "running"]
    /\ runPc' = [runPc EXCEPT ![i] = "148"]
    /\ UNCHANGED <<smMu, runOut, getPc, getSeen>>
    /\ rowWrite' = [line |-> "136", locked |-> smMu.w = i, readers |-> smMu.r]
    /\ UNCHANGED notMu

\* manager.go:148-151: the configuration is read under RLock; 163-169: the
\* loop runs and returns.
RunTaskLoop(i, out) ==
    /\ runPc[i] = "148"
    /\ smMu.w = 0
    /\ runOut' = [runOut EXCEPT ![i] = out]
    /\ runPc' = [runPc EXCEPT ![i] = "171"]
    /\ UNCHANGED <<smMu, rows, getPc, getSeen>>
    /\ UNCHANGED rowWrite
    /\ UNCHANGED notMu

\* manager.go:171: sm.mu.Lock().
RunTaskLock(i) ==
    /\ runPc[i] = "171"
    /\ smMu = [w |-> 0, r |-> {}]
    /\ smMu' = [smMu EXCEPT !.w = i]
    /\ runPc' = [runPc EXCEPT ![i] = "175"]
    /\ UNCHANGED <<rows, runOut, getPc, getSeen>>
    /\ UNCHANGED rowWrite
    /\ UNCHANGED notMu

\* manager.go:175 and 178: the status of the row.
RunTaskSetStatus(i) ==
    /\ runPc[i] = "175"
    /\ rows' = [rows EXCEPT ![i].Status = StatusAfterLoop(runOut[i].err)]
    /\ runPc' = [runPc EXCEPT ![i] = "176"]
    /\ UNCHANGED <<smMu, runOut, getPc, getSeen>>
    /\ rowWrite' = [line |-> "175", locked |-> smMu.w = i, readers |-> smMu.r]
    /\ UNCHANGED notMu

\* manager.go:176 and 179-180: the result and the iterations of the row;
\* 183-191: the announcement when there is a bus; the deferred Unlock.
RunTaskSetResult(i) ==
    /\ runPc[i] = "176"
    /\ rows' = [rows EXCEPT
                  ![i].Result = IF runOut[i].err THEN "Error: " \o runOut[i].Content
                                ELSE runOut[i].Content,
                  ![i].Iterations = IF runOut[i].err THEN @ ELSE runOut[i].Iterations]
    /\ smMu' = [smMu EXCEPT !.w = 0]
    /\ runPc' = [runPc EXCEPT ![i] = "done"]
    /\ UNCHANGED <<runOut, getPc, getSeen>>
    /\ rowWrite' = [line |-> "176", locked |-> smMu.w = i, readers |-> smMu.r]
    /\ UNCHANGED notMu

\* manager.go:260: GetTask takes the read lock.
GetTaskRLock ==
    /\ getPc = "idle"
    /\ smMu.w = 0
    /\ smMu' = [smMu EXCEPT !.r = {"GetTask"}]
    /\ getPc' = "262"
    /\ UNCHANGED <<rows, runPc, runOut, getSeen>>
    /\ UNCHANGED rowWrite
    /\ UNCHANGED notMu

\* manager.go:261-263: the row is looked up and the read lock released.
GetTaskReturn(i) ==
    /\ getPc = "262"
    /\ getSeen' = rows[i]
    /\ smMu' = [smMu EXCEPT !.r = {}]
    /\ getPc' = "idle"
    /\ UNCHANGED <<rows, runPc, runOut>>
    /\ UNCHANGED rowWrite
    /\ UNCHANGED notMu

NextMu ==
    \/ \E i \in 1..MaxTasks : SpawnLocked(i)
    \/ \E i \in 1..MaxTasks : RunTaskStatus(i)
    \/ \E i \in 1..MaxTasks, out \in LoopOutcomes : RunTaskLoop(i, out)
    \/ \E i \in 1..MaxTasks : RunTaskLock(i)
    \/ \E i \in 1..MaxTasks : RunTaskSetStatus(i)
    \/ \E i \in 1..MaxTasks : RunTaskSetResult(i)
    \/ GetTaskRLock
    \/ \E i \in 1..MaxTasks : GetTaskReturn(i)

\* C30: a row of the task table is written only by a goroutine that holds
\* the manager's lock for writing, so never while a reader holds it for
\* reading, and the goroutine announces only once its row is written.
C30_RowsUnderLock ==
    rowWrite.line # "" => rowWrite.locked /\ rowWrite.readers = {}

----------------------------------------------------------------------------
(***************************************************************************)
(* Concurrent fetches on one engine (monitor/skill.go:1056-1300).  Each    *)
(* goroutine runs executeFetch on the same MonitorSkill; s.mu is a         *)
(* sync.RWMutex.  The three maps are keyed by what one item yields, so a   *)
(* key stands for the item's URL, body and title entries together; the     *)
(* items are fresh, so no entry expires within these runs.                 *)
(***************************************************************************)

MaxRuns == 2

Fetchers == {1, 2}

EngItems == {"x", "y"}

NoAccess == [op |-> "", line |-> 0, held |-> ""]

\* The lock of s.mu that goroutine f holds.
HeldBy(f) ==
    IF engMu.writer = f THEN "w"
    ELSE IF f \in engMu.readers THEN "r" ELSE "none"

\* Some other goroutine is inside a section of s.mu.
OtherInside(f) ==
    \/ engMu.writer \notin {0, f}
    \/ engMu.readers \ {f} # {}

\* What an access to a map outside the lock can do while another goroutine
\* is inside a section: go on, or the runtime's fatal error.
RaceOutcomes(f) == IF OtherInside(f) THEN {"done", "fatal"} ELSE {"done"}

InitEng ==
    /\ engMu = [writer |-> 0, readers |-> {}]
    /\ engDb = FALSE
    /\ engSeen = {}
    /\ engStore = {}
    /\ engPc = [f \in Fetchers |-> "idle"]
    /\ engItem = [f \in Fetchers |-> ""]
    /\ engNew = [f \in Fetchers |-> FALSE]
    /\ engRuns = [f \in Fetchers |-> 0]
    /\ engAdmitted = <<>>
    /\ engAccess = {}
    /\ engFatal = FALSE

\* executeFetch is called; its feeds yield the item.
FetchEnter(f, item) ==
    /\ ~engFatal
    /\ engPc[f] = "idle"
    /\ engRuns[f] < MaxRuns
    /\ engRuns' = [engRuns EXCEPT ![f] = @ + 1]
    /\ engItem' = [engItem EXCEPT ![f] = item]
    /\ engPc' = [engPc EXCEPT ![f] = "db"]
    /\ engAccess' = {}
    /\ UNCHANGED <<engMu, engDb, engSeen, engStore, engNew, engAdmitted, engFatal>>
    /\ UNCHANGED notEng

\* if s.db == nil
FetchDbNil(f) ==
    /\ ~engFatal
    /\ engPc[f] = "db"
    /\ engPc' = [engPc EXCEPT ![f] = IF engDb THEN "check" ELSE "load"]
    /\ engAccess' = {}
    /\ UNCHANGED <<engMu, engDb, engSeen, engStore, engItem, engNew, engRuns,
                   engAdmitted, engFatal>>
    /\ UNCHANGED notEng

\* s.db = db; s.loadDedupCache(): the rows of the store into the maps.
FetchLoad(f, outcome) ==
    /\ ~engFatal
    /\ engPc[f] = "load"
    /\ outcome \in RaceOutcomes(f)
    /\ engDb' = TRUE
    /\ engAccess' = {[op |-> "write", line |-> 1755, held |-> HeldBy(f)]}
    /\ engFatal' = (outcome = "fatal")
    /\ engSeen' = IF outcome = "fatal" THEN engSeen ELSE engSeen \cup engStore
    /\ engPc' = [engPc EXCEPT ![f] = "check"]
    /\ UNCHANGED <<engMu, engStore, engItem, engNew, engRuns, engAdmitted>>
    /\ UNCHANGED notEng

\* checkDuplicate: s.mu.RLock()
CheckRLock(f) ==
    /\ ~engFatal
    /\ engPc[f] = "check"
    /\ engMu.writer = 0
    /\ engMu' = [engMu EXCEPT !.readers = @ \cup {f}]
    /\ engPc' = [engPc EXCEPT ![f] = "read"]
    /\ engAccess' = {}
    /\ UNCHANGED <<engDb, engSeen, engStore, engItem, engNew, engRuns,
                   engAdmitted, engFatal>>
    /\ UNCHANGED notEng

\* checkDuplicate: the lookups, the return and its deferred RUnlock.
CheckReturn(f) ==
    /\ ~engFatal
    /\ engPc[f] = "read"
    /\ engNew' = [engNew EXCEPT ![f] = engItem[f] \notin engSeen]
    /\ engAccess' = {[op |-> "read", line |-> 1504, held |-> HeldBy(f)]}
    /\ engMu' = [engMu EXCEPT !.readers = @ \ {f}]
    /\ engPc' = [engPc EXCEPT ![f] = "lock"]
    /\ UNCHANGED <<engDb, engSeen, engStore, engItem, engRuns, engAdmitted,
                   engFatal>>
    /\ UNCHANGED notEng

\* s.mu.Lock() before the marking of the admitted items.
MarkLock(f) ==
    /\ ~engFatal
    /\ engPc[f] = "lock"
    /\ engMu.writer = 0
    /\ engMu.readers = {}
    /\ engMu' = [engMu EXCEPT !.writer = f]
    /\ engPc' = [engPc EXCEPT ![f] = "mark"]
    /\ engAccess' = {}
    /\ UNCHANGED <<engDb, engSeen, engStore, engItem, engNew, engRuns,
                   engAdmitted, engFatal>>
    /\ UNCHANGED notEng

\* for deduped: markSeen (the maps, then the store); s.mu.Unlock()
MarkUnlock(f) ==
    /\ ~engFatal
    /\ engPc[f] = "mark"
    /\ IF engNew[f]
       THEN /\ engSeen' = engSeen \cup {engItem[f]}
            /\ engStore' = engStore \cup {engItem[f]}
            /\ engAdmitted' = Append(engAdmitted, [by |-> f, item |-> engItem[f]])
            /\ engAccess' = {[op |-> "write", line |-> 1709, held |-> HeldBy(f)],
                             [op |-> "upsert", line |-> 1715, held |-> HeldBy(f)]}
       ELSE /\ engAccess' = {}
            /\ UNCHANGED <<engSeen, engStore, engAdmitted>>
    /\ engMu' = [engMu EXCEPT !.writer = 0]
    /\ engPc' = [engPc EXCEPT ![f] = "persist"]
    /\ UNCHANGED <<engDb, engItem, engNew, engRuns, engFatal>>
    /\ UNCHANGED notEng

\* s.persistDedupCache(): every entry of the maps into the store.
FetchPersist(f, outcome) ==
    /\ ~engFatal
    /\ engPc[f] = "persist"
    /\ outcome \in RaceOutcomes(f)
    /\ engAccess' = {[op |-> "read", line |-> 1737, held |-> HeldBy(f)]}
                    \cup IF engSeen # {} /\ outcome = "done"
                         THEN {[op |-> "upsert", line |-> 1738, held |-> HeldBy(f)]}
                         ELSE {}
    /\ engFatal' = (outcome = "fatal")
    /\ engStore' = IF outcome = "fatal" THEN engStore ELSE engStore \cup engSeen
    /\ engPc' = [engPc EXCEPT ![f] = "idle"]
    /\ UNCHANGED <<engMu, engDb, engSeen, engItem, engNew, engRuns, engAdmitted>>
    /\ UNCHANGED notEng

NextEng ==
    \/ \E f \in Fetchers, item \in EngItems : FetchEnter(f, item)
    \/ \E f \in Fetchers : FetchDbNil(f)
    \/ \E f \in Fetchers, outcome \in {"done", "fatal"} : FetchLoad(f, outcome)
    \/ \E f \in Fetchers : CheckRLock(f)
    \/ \E f \in Fetchers : CheckReturn(f)
    \/ \E f \in Fetchers : MarkLock(f)
    \/ \E f \in Fetchers : MarkUnlock(f)
    \/ \E f \in Fetchers, outcome \in {"done", "fatal"} : FetchPersist(f, outcome)

\* C31: every read of the dedup maps is made under the engine's read lock
\* (or its write lock), every write to them under its write lock, and every
\* upsert into the store inside the write-locked section.
C31_MapsUnderLock ==
    \A a \in engAccess :
        /\ a.op = "read" => a.held \in {"r", "w"}
        /\ a.op = "write" => a.held = "w"
        /\ a.op = "upsert" => a.held = "w"

\* C32: two fetches running on the same engine never both admit the same
\* item.
C32_NoDoubleAdmit ==
    \A i, j \in 1..Len(engAdmitted) :
        (i # j /\ engAdmitted[i].item = engAdmitted[j].item)
            => engAdmitted[i].by = engAdmitted[j].by

----------------------------------------------------------------------------
\* The gateway over any of the workspaces it can find.
InitHeartbeat ==
    /\ InitLoop
    /\ InitSub
    /\ InitDedup
    /\ InitRfc
    /\ InitEng
    /\ InitMu
    /\ InitUrl
    /\ InitChief
    /\ InitCoach
    /\ InitWs
    /\ InitDav
    /\ InitFan
    /\ InitSched
    /\ chiefDash \in ChiefDashFiles
    /\ atcRootTasks \in RootTaskFiles
    /\ atcMirror \in MirrorFiles

\* The gateway over a workspace whose deadline file makes every tick urgent.
InitShutdown ==
    /\ InitLoop
    /\ InitSub
    /\ InitDedup
    /\ InitRfc
    /\ InitEng
    /\ InitMu
    /\ InitUrl
    /\ InitChief
    /\ InitCoach
    /\ InitWs
    /\ InitDav
    /\ InitFan
    /\ InitSched
    /\ chiefDash = [exists |-> TRUE, format |-> "md", lines |-> { Line("[P1]", -1) }]
    /\ atcRootTasks = NoFile
    /\ atcMirror = [exists |-> TRUE, format |-> "xcal", lines |-> {}]

Init ==
    /\ InitLoop
    /\ InitSub
    /\ InitGw
    /\ InitDedup
    /\ InitRfc
    /\ InitEng
    /\ InitMu
    /\ InitUrl
    /\ InitChief
    /\ InitCoach
    /\ InitWs
    /\ InitDav
    /\ InitFan

SpecLoop == Init /\ [][NextLoop]_vars

SpecSub == Init /\ [][NextSub]_vars

SpecDedup == Init /\ [][NextDedup]_vars

SpecHeartbeat == InitHeartbeat /\ [][NextHeartbeat]_vars

SpecShutdown == InitShutdown /\ [][NextShutdown]_vars

SpecTitle == Init /\ [][NextTitle]_vars

SpecRfc == Init /\ [][NextRfc]_vars

SpecRfcRace == Init /\ [][NextRfcRace]_vars

SpecFan == Init /\ [][NextFan]_vars

SpecDav == Init /\ [][NextDav]_vars

SpecWs == Init /\ [][NextWs]_vars

SpecAtc == Init /\ [][NextAtc]_vars

SpecCoach == Init /\ [][NextCoach]_vars

SpecChief == Init /\ [][NextChief]_vars

SpecUrl == Init /\ [][NextUrl]_vars

SpecMu == Init /\ [][NextMu]_vars

SpecEmpty == Init /\ [][NextEmpty]_vars

SpecEng == Init /\ [][NextEng]_vars

====
